---- MODULE Spec2Model ----
(***************************************************************************)
(* A model of the rule-based natural-language core of the assistant        *)
(* (src/ai_task_manager/enhanced_nlu.py): the intent classifier, the       *)
(* entity extractor, the action generators and the processor that runs     *)
(* them in sequence.  Texts are TLA+ strings; the regular expressions of   *)
(* the source are syntax trees matched by a backtracking matcher that      *)
(* follows Python's re module (leftmost match, alternatives in order,      *)
(* greedy repetition, capture groups).                                     *)
(***************************************************************************)
EXTENDS Integers, Sequences, FiniteSets, TLC

(***************************************************************************)
(* Characters and strings (Python str)                                     *)
(***************************************************************************)
Chars(str) == {SubSeq(str, i, i) : i \in 1..Len(str)}

UpperChars == "ABCDEFGHIJKLMNOPQRSTUVWXYZ"
LowerChars == "abcdefghijklmnopqrstuvwxyz"
DigitChars == "0123456789"

Digit == Chars(DigitChars)
Space == {" ", "\t", "\n"}
Upper == Chars(UpperChars)
\* \w
WordChar == Chars(UpperChars \o LowerChars \o DigitChars \o "_")

CharAt(s, i) == SubSeq(s, i, i)

\* str.lower() on one character
LowerChar(c) ==
    IF c \in Upper
    THEN LET k == CHOOSE i \in 1..Len(UpperChars) : CharAt(UpperChars, i) = c
         IN  CharAt(LowerChars, k)
    ELSE c

RECURSIVE Lower(_)
\* str.lower()
Lower(s) == IF s = "" THEN "" ELSE LowerChar(Head(s)) \o Lower(Tail(s))

\* Python's  w in s  on strings
Contains(s, w) ==
    \E i \in 1..(Len(s) - Len(w) + 1) : SubSeq(s, i, i + Len(w) - 1) = w

\* any(word in s for word in ws)
ContainsAny(s, ws) == \E k \in 1..Len(ws) : Contains(s, ws[k])

RECURSIVE LStrip(_)
LStrip(s) == IF s # "" /\ Head(s) \in Space THEN LStrip(Tail(s)) ELSE s

RECURSIVE RStrip(_)
RStrip(s) ==
    IF s # "" /\ CharAt(s, Len(s)) \in Space
    THEN RStrip(SubSeq(s, 1, Len(s) - 1))
    ELSE s

\* str.strip()
Strip(s) == RStrip(LStrip(s))

(***************************************************************************)
(* Regular expressions (Python re)                                         *)
(***************************************************************************)
Lit(str)  == <<"lit", str>>
Set(S)    == <<"set", S>>
NSet(S)   == <<"nset", S>>
Alt(rs)   == <<"alt", rs>>
Cat(rs)   == <<"cat", rs>>
Opt(r)    == <<"opt", r>>
\* c* and c+ for a character class c (every repetition of the source is
\* one of a class): a greedy run of at least min characters
Star(c)   == <<"run", c, 0>>
Plus(c)   == <<"run", c, 1>>
Grp(k, r) == <<"grp", k, r>>
WB        == <<"wb">>
\* (w1|w2|...)
W(ws)     == <<"words", ws>>
D         == Set(Digit)
WS        == Set(Space)
\* \d{1,2}, \d{2}, \d{2,4}
D12       == Cat(<<D, Opt(D)>>)
D2        == Cat(<<D, D>>)
D24       == Cat(<<D, D, Opt(Cat(<<D, Opt(D)>>))>>)

\* \b : a word character on exactly one side of position i
IsWordAt(s, i) == i >= 1 /\ i <= Len(s) /\ CharAt(s, i) \in WordChar

\* the literal w at position i of s
LitAt(w, s, i) ==
    i + Len(w) - 1 <= Len(s) /\ SubSeq(s, i, i + Len(w) - 1) = w

RECURSIVE MWords(_, _, _, _, _)
\* (w1|w2|...): the alternatives in the order written
MWords(ws, k, s, i, g) ==
    IF k > Len(ws) THEN <<>>
    ELSE (IF LitAt(ws[k], s, i) THEN << <<i + Len(ws[k]), g>> >> ELSE <<>>)
         \o MWords(ws, k + 1, s, i, g)

\* is the character at position i of s in the class c (a set or its negation)
InClass(c, s, i) ==
    i <= Len(s) /\ (IF c[1] = "set" THEN CharAt(s, i) \in c[2]
                    ELSE CharAt(s, i) \notin c[2])

RECURSIVE RunEnd(_, _, _)
\* the position after the longest run of characters of class c from i
RunEnd(c, s, i) == IF InClass(c, s, i) THEN RunEnd(c, s, i + 1) ELSE i

\* the matches of a greedy run that ends before e: the longest first, then
\* each shorter one down to min characters
Runs(e, i, min, g) == [j \in 1..(e - i - min + 1) |-> <<e - j + 1, g>>]

\* the matches res of the inside of group k, each with the group set to
\* the span it matched from i
SetGroup(res, k, i) ==
    [j \in 1..Len(res) |->
       <<res[j][1], [res[j][2] EXCEPT ![k] = <<i, res[j][1] - 1>>]>>]

RECURSIVE M(_, _, _, _), MAlt(_, _, _, _, _), MCat(_, _, _, _, _),
          FlatCat(_, _, _, _, _)

\* The ways re matches s from position i, in backtracking order, each
\* <<end, groups>>: the first is the match Python takes.
M(re, s, i, g) ==
    LET t == re[1] IN
    CASE t = "lit" ->
           IF LitAt(re[2], s, i) THEN << <<i + Len(re[2]), g>> >> ELSE <<>>
      [] t = "words" -> MWords(re[2], 1, s, i, g)
      [] t \in {"set", "nset"} ->
           IF InClass(re, s, i) THEN << <<i + 1, g>> >> ELSE <<>>
      [] t = "run" ->
           Runs(RunEnd(re[2], s, i), i, re[3], g)
      [] t = "wb" ->
           IF IsWordAt(s, i - 1) # IsWordAt(s, i)
           THEN << <<i, g>> >> ELSE <<>>
      [] t = "alt" -> MAlt(re[2], 1, s, i, g)
      [] t = "cat" -> MCat(re[2], 1, s, i, g)
      [] t = "opt" -> M(re[2], s, i, g) \o << <<i, g>> >>
      [] t = "grp" -> SetGroup(M(re[3], s, i, g), re[2], i)

MAlt(rs, k, s, i, g) ==
    IF k > Len(rs) THEN <<>>
    ELSE M(rs[k], s, i, g) \o MAlt(rs, k + 1, s, i, g)

MCat(rs, k, s, i, g) ==
    IF k > Len(rs) THEN << <<i, g>> >>
    ELSE FlatCat(M(rs[k], s, i, g), 1, rs, k + 1, s)

FlatCat(res, j, rs, k, s) ==
    IF j > Len(res) THEN <<>>
    ELSE MCat(rs, k, s, res[j][1], res[j][2]) \o FlatCat(res, j + 1, rs, k, s)

\* Groups are spans <<first, last>> of the subject; a group that took no
\* part in the match is the empty span.
NoGroups(ng) == [k \in 1..ng |-> <<1, 0>>]

\* m.group(k), '' for a group that took no part (as re.findall gives it)
GroupStr(s, m, k) == SubSeq(s, m.groups[k][1], m.groups[k][2])

RECURSIVE SearchFrom(_, _, _, _), SearchAt(_, _, _, _, _)
\* re.search from position i: <<[start, end, groups]>> of the leftmost
\* match, or <<>> (None)
SearchFrom(re, ng, s, i) ==
    IF i > Len(s) + 1 THEN <<>>
    ELSE SearchAt(M(re, s, i, NoGroups(ng)), re, ng, s, i)

\* the search at position i, where re matches in the ways res: the first
\* of them is the match, and with none the search goes on from i + 1
SearchAt(res, re, ng, s, i) ==
    IF res # <<>>
    THEN << [start |-> i, end |-> res[1][1], groups |-> res[1][2]] >>
    ELSE SearchFrom(re, ng, s, i + 1)

\* re.search(pattern, s) is not None
Search(re, ng, s) == SearchFrom(re, ng, s, 1) # <<>>

RECURSIVE Matches(_, _, _, _), MatchesAfter(_, _, _, _)
\* the non-overlapping matches of re in s from i, left to right
\* (re.finditer)
Matches(re, ng, s, i) == MatchesAfter(SearchFrom(re, ng, s, i), re, ng, s)

\* the match m (or none) and the matches after it; after an empty match
\* the scan moves on by one character
MatchesAfter(m, re, ng, s) ==
    IF m = <<>> THEN <<>>
    ELSE <<m[1]>> \o
         Matches(re, ng, s, IF m[1].end > m[1].start THEN m[1].end
                            ELSE m[1].end + 1)

\* One item of re.findall: the whole match for a pattern without groups,
\* the group for a pattern with one group (both a str, here a 1-tuple),
\* the tuple of the groups for a pattern with several.
FindItem(m, ng, s) ==
    IF ng = 0 THEN <<SubSeq(s, m.start, m.end - 1)>>
    ELSE [k \in 1..ng |-> GroupStr(s, m, k)]

\* the items of the matches ms
FindItems(ms, ng, s) == [j \in 1..Len(ms) |-> FindItem(ms[j], ng, s)]

\* re.findall(pattern, s)
FindAll(re, ng, s) == FindItems(Matches(re, ng, s, 1), ng, s)

\* isinstance(item, tuple)
IsTuple(item) == Len(item) > 1

RECURSIVE Remove(_, _, _)
\* s without the spans ms[j..], from the last one back
Remove(s, ms, j) ==
    IF j = 0 THEN s
    ELSE Remove(SubSeq(s, 1, ms[j].start - 1) \o SubSeq(s, ms[j].end, Len(s)),
                ms, j - 1)

\* s without the matches ms
RemoveAll(s, ms) == Remove(s, ms, Len(ms))

\* re.sub(pattern, '', s)
Sub(re, ng, s) == RemoveAll(s, Matches(re, ng, s, 1))

\* re.sub(pattern, '', s, flags=re.IGNORECASE), for a lower-case pattern
SubI(re, ng, s) == RemoveAll(s, Matches(re, ng, Lower(s), 1))

(***************************************************************************)
(* IntentClassifier                                                        *)
(***************************************************************************)
IntentOrder ==
    <<"task_management", "budget_management", "schedule_management",
      "information_query", "conversation">>

\* Each pattern is <<syntax tree, number of groups>>.
TaskPatterns ==
    << <<Cat(<<WB, Grp(1, W(<<"add", "create", "new", "make">>)), Plus(WS),
             Grp(2, W(<<"task", "todo", "reminder">>))>>), 2>>,
       <<Cat(<<WB, Grp(1, W(<<"complete", "finish", "done", "mark">>)),
             Plus(WS), Grp(2, W(<<"task", "todo">>))>>), 2>>,
       <<Cat(<<WB, Grp(1, W(<<"delete", "remove", "cancel">>)), Plus(WS),
             Grp(2, W(<<"task", "todo">>))>>), 2>>,
       <<Cat(<<WB, Grp(1, W(<<"show", "list", "view">>)), Plus(WS),
             Grp(2, W(<<"tasks", "todos">>))>>), 2>>,
       <<Cat(<<WB, Grp(1, W(<<"update", "edit", "change">>)), Plus(WS),
             Grp(2, W(<<"task", "todo">>))>>), 2>>,
       <<Cat(<<WB, Lit("deadline"), WB>>), 0>>,
       <<Cat(<<WB, Lit("priority"), WB>>), 0>>,
       <<Cat(<<WB, Lit("due"), Plus(WS),
             Grp(1, W(<<"by", "on", "before">>))>>), 1>> >>

BudgetPatterns ==
    << <<Cat(<<WB, Grp(1, W(<<"spent", "spend", "cost", "paid", "pay">>)),
             Star(WS), Opt(Lit("$")), Plus(D)>>), 1>>,
       <<Cat(<<WB, Grp(1, W(<<"earned", "income", "salary", "received">>)),
             Star(WS), Opt(Lit("$")), Plus(D)>>), 1>>,
       <<Cat(<<WB, Grp(1, W(<<"budget", "expense", "expenses",
                              "spending">>))>>), 1>>,
       <<Cat(<<WB, Grp(1, W(<<"track", "record", "log">>)), Plus(WS),
             Grp(2, W(<<"expense", "spending", "income">>))>>), 2>>,
       <<Cat(<<WB, Grp(1, W(<<"show", "view", "check">>)), Plus(WS),
             Grp(2, W(<<"budget", "expenses", "spending">>))>>), 2>>,
       <<Cat(<<Lit("$"), Plus(D)>>), 0>> >>

SchedulePatterns ==
    << <<Cat(<<WB, Grp(1, W(<<"schedule", "appointment", "meeting",
                              "event">>))>>), 1>>,
       <<Cat(<<WB, Grp(1, W(<<"calendar", "agenda">>))>>), 1>>,
       <<Cat(<<WB, Grp(1, W(<<"remind", "reminder">>)), Plus(WS),
             Lit("me")>>), 1>>,
       <<Cat(<<WB, Grp(1, W(<<"at", "on", "from", "until">>)), Plus(WS), D12,
             Opt(Grp(2, Cat(<<Lit(":"), D2>>))), Star(WS),
             Grp(3, W(<<"am", "pm">>))>>), 3>>,
       <<Cat(<<WB, Grp(1, Alt(<<Lit("today"), Lit("tomorrow"),
                                Cat(<<Lit("next"), Plus(WS), Lit("week")>>),
                                Lit("monday"), Lit("tuesday"),
                                Lit("wednesday"), Lit("thursday"),
                                Lit("friday"), Lit("saturday"),
                                Lit("sunday")>>))>>), 1>>,
       <<Cat(<<WB, Grp(1, W(<<"book", "reserve", "plan">>))>>), 1>> >>

\* as QueryPatterns, the question words without "how"
QueryPatterns_no_how ==
    << <<Cat(<<WB, Grp(1, W(<<"what", "when", "where", "why", "who">>))>>),
         1>>,
       <<Cat(<<WB, Grp(1, W(<<"show", "tell", "explain", "describe">>))>>),
         1>>,
       <<Cat(<<WB, Grp(1, W(<<"status", "summary", "overview",
                              "report">>))>>), 1>>,
       <<Cat(<<WB, Grp(1, W(<<"help", "assist", "support">>))>>), 1>> >>

QueryPatterns ==
    << <<Cat(<<WB, Grp(1, W(<<"what", "when", "where", "how", "why",
                              "who">>))>>), 1>>,
       <<Cat(<<WB, Grp(1, W(<<"show", "tell", "explain", "describe">>))>>),
         1>>,
       <<Cat(<<WB, Grp(1, W(<<"status", "summary", "overview",
                              "report">>))>>), 1>>,
       <<Cat(<<WB, Grp(1, W(<<"help", "assist", "support">>))>>), 1>> >>

ConversationPatterns ==
    << <<Cat(<<WB, Grp(1, Alt(<<Lit("hello"), Lit("hi"), Lit("hey"),
                                Cat(<<Lit("good"), Plus(WS),
                                      Grp(2, W(<<"morning", "afternoon",
                                                 "evening">>))>>)>>))>>), 2>>,
       <<Cat(<<WB, Grp(1, W(<<"thank", "thanks", "appreciate">>))>>), 1>>,
       <<Cat(<<WB, Grp(1, Alt(<<Cat(<<Lit("how"), Plus(WS), Lit("are"),
                                      Plus(WS), Lit("you")>>),
                                Cat(<<Lit("what's"), Plus(WS),
                                      Lit("up")>>)>>))>>), 1>>,
       <<Cat(<<WB, Grp(1, Alt(<<Lit("bye"), Lit("goodbye"),
                                Cat(<<Lit("see"), Plus(WS),
                                      Lit("you")>>)>>))>>), 1>> >>

\* INTENT_PATTERNS, in the order the dict is written
INTENT_PATTERNS ==
    << TaskPatterns, BudgetPatterns, SchedulePatterns, QueryPatterns,
       ConversationPatterns >>

\* the inner loop of classify_intent: does a pattern of the list match
AnyPattern(patterns, s) ==
    \E p \in 1..Len(patterns) : Search(patterns[p][1], patterns[p][2], s)

RECURSIVE ClassifyLoop_first_only(_, _, _)
\* as ClassifyLoop, but leaving the outer loop at the first category found
ClassifyLoop_first_only(text_lower, k, detected) ==
    IF k > Len(IntentOrder) \/ detected # <<>> THEN detected
    ELSE ClassifyLoop_first_only(text_lower, k + 1,
           IF AnyPattern(INTENT_PATTERNS[k], text_lower)
           THEN Append(detected, IntentOrder[k])
           ELSE detected)

RECURSIVE ClassifyLoop(_, _, _)
\* the outer loop of classify_intent over INTENT_PATTERNS.items()
ClassifyLoop(text_lower, k, detected) ==
    IF k > Len(IntentOrder) THEN detected
    ELSE ClassifyLoop(text_lower, k + 1,
           IF AnyPattern(INTENT_PATTERNS[k], text_lower)
              /\ \A j \in 1..Len(detected) : detected[j] # IntentOrder[k]
           THEN Append(detected, IntentOrder[k])
           ELSE detected)

\* as classify_intent, without the default to conversation
classify_intent_no_default(text) == ClassifyLoop(Lower(text), 1, <<>>)

\* IntentClassifier.classify_intent
classify_intent(text) ==
    LET detected_intents == ClassifyLoop(Lower(text), 1, <<>>) IN
    IF detected_intents = <<>> THEN <<"conversation">> ELSE detected_intents

(***************************************************************************)
(* The clock: a day is counted from 2024-01-01 (day 0); strftime writes it *)
(* as YYYY-MM-DD.                                                          *)
(***************************************************************************)
IsLeap(y) == (y % 4 = 0 /\ y % 100 # 0) \/ y % 400 = 0

DaysInYear(y) == IF IsLeap(y) THEN 366 ELSE 365

DaysInMonth(y, m) ==
    IF m = 2 THEN (IF IsLeap(y) THEN 29 ELSE 28)
    ELSE IF m \in {4, 6, 9, 11} THEN 30 ELSE 31

RECURSIVE YMD(_, _, _)
\* the calendar date of day n of month m of year y, n counted from 0
YMD(y, m, n) ==
    IF n >= DaysInYear(y) /\ m = 1 THEN YMD(y + 1, 1, n - DaysInYear(y))
    ELSE IF n >= DaysInMonth(y, m) THEN YMD(y, m + 1, n - DaysInMonth(y, m))
    ELSE [year |-> y, month |-> m, day |-> n + 1]

Dig(k) == CharAt(DigitChars, k + 1)
Pad2(n) == Dig(n \div 10) \o Dig(n % 10)
Pad4(n) == Pad2(n \div 100) \o Pad2(n % 100)

\* (datetime of day d).strftime('%Y-%m-%d')
StrfDate(d) ==
    LET c == YMD(2024, 1, d) IN
    Pad4(c.year) \o "-" \o Pad2(c.month) \o "-" \o Pad2(c.day)

(***************************************************************************)
(* AdvancedEntityExtractor                                                 *)
(***************************************************************************)
Weekdays ==
    <<"monday", "tuesday", "wednesday", "thursday", "friday", "saturday",
      "sunday">>

Months ==
    <<"january", "february", "march", "april", "may", "june", "july",
      "august", "september", "october", "november", "december">>

\* (days?|weeks?|months?)
Units ==
    Alt(<<Cat(<<Lit("day"), Opt(Lit("s"))>>),
          Cat(<<Lit("week"), Opt(Lit("s"))>>),
          Cat(<<Lit("month"), Opt(Lit("s"))>>)>>)

date_patterns ==
    << <<Cat(<<WB, Grp(1, W(<<"today", "tomorrow">>)), WB>>), 1>>,
       <<Cat(<<WB, Grp(1, W(<<"next", "this">>)), Plus(WS),
             Grp(2, W(<<"week", "month">> \o Weekdays)), WB>>), 2>>,
       <<Cat(<<WB, D12, Set({"/", "-"}), D12, Set({"/", "-"}), D24, WB>>), 0>>,
       <<Cat(<<WB, Grp(1, W(Months)), Plus(WS), D12, WB>>), 1>>,
       <<Cat(<<WB, Lit("in"), Plus(WS), Plus(D), Plus(WS), Grp(1, Units),
             WB>>), 1>> >>

time_patterns ==
    << <<Cat(<<WB, D12, Opt(Grp(1, Cat(<<Lit(":"), D2>>))), Star(WS),
             Grp(2, W(<<"am", "pm">>)), WB>>), 2>>,
       <<Cat(<<WB, Grp(1, W(<<"morning", "afternoon", "evening",
                              "night">>)), WB>>), 1>>,
       <<Cat(<<WB, Lit("at"), Plus(WS), D12,
             Opt(Grp(1, Cat(<<Lit(":"), D2>>))), WB>>), 1>> >>

\* (\.\d{2})?
Cents(k) == Opt(Grp(k, Cat(<<Lit("."), D2>>)))

amount_patterns ==
    << <<Cat(<<Lit("$"), Plus(D), Cents(1)>>), 1>>,
       <<Cat(<<WB, Plus(D), Star(WS), Lit("dollar"), Opt(Lit("s")), WB>>), 0>>,
       <<Cat(<<WB, Plus(D), Cents(1), Star(WS), Lit("buck"), Opt(Lit("s")),
             WB>>), 1>> >>

\* r'\d+(\.\d{2})?' of extract_amounts
numeric_pattern == <<Cat(<<Plus(D), Cents(1)>>), 1>>

priority_patterns ==
    << <<Cat(<<WB, Grp(1, Alt(<<Lit("urgent"), Lit("asap"),
                                Lit("immediately"), Lit("critical"),
                                Cat(<<Lit("high"), Plus(WS),
                                      Lit("priority")>>)>>)), WB>>), 1>>,
       <<Cat(<<WB, Grp(1, Alt(<<Lit("important"),
                                Cat(<<Lit("medium"), Plus(WS),
                                      Lit("priority")>>)>>)), WB>>), 1>>,
       <<Cat(<<WB, Grp(1, Alt(<<Cat(<<Lit("low"), Plus(WS),
                                      Lit("priority")>>),
                                Cat(<<Lit("when"), Plus(WS),
                                      Lit("possible")>>),
                                Lit("eventually")>>)), WB>>), 1>> >>

RECURSIVE FindAllOf(_, _, _)
\* for pattern in patterns: items.extend(re.findall(pattern, s))
FindAllOf(patterns, k, s) ==
    IF k > Len(patterns) THEN <<>>
    ELSE FindAll(patterns[k][1], patterns[k][2], s)
         \o FindAllOf(patterns, k + 1, s)

\* One step of the loop of _normalize_dates.  An item is a str (a 1-tuple
\* here) or a tuple of groups: a tuple equals no string, and 'next week'
\* in a tuple asks for an element equal to it.
NormalizeDate(date_str, today) ==
    LET in(w) == IF IsTuple(date_str)
                 THEN \E k \in 1..Len(date_str) : date_str[k] = w
                 ELSE Contains(date_str[1], w)
    IN
    IF ~IsTuple(date_str) /\ date_str[1] = "today" THEN <<StrfDate(today)>>
    ELSE IF ~IsTuple(date_str) /\ date_str[1] = "tomorrow"
         THEN <<StrfDate(today + 1)>>
    ELSE IF in("next week") THEN <<StrfDate(today + 7)>>
    ELSE IF in("next month") THEN <<StrfDate(today + 30)>>
    ELSE date_str

\* AdvancedEntityExtractor._normalize_dates
normalize_dates(date_strings, today) ==
    [k \in 1..Len(date_strings) |-> NormalizeDate(date_strings[k], today)]

\* AdvancedEntityExtractor.extract_dates
extract_dates(text, today) ==
    normalize_dates(FindAllOf(date_patterns, 1, Lower(text)), today)

\* AdvancedEntityExtractor.extract_times: match[0] of a tuple, else the str
extract_times(text) ==
    LET matches == FindAllOf(time_patterns, 1, Lower(text)) IN
    [k \in 1..Len(matches) |-> matches[k][1]]

RECURSIVE Number(_)
\* int(s) for a string of digits
Number(ds) ==
    IF ds = "" THEN 0
    ELSE 10 * Number(SubSeq(ds, 1, Len(ds) - 1))
         + (CHOOSE d \in 0..9 : Dig(d) = CharAt(ds, Len(ds)))

\* as PyFloat, the empty string being read as 0
PyFloat_empty_as_zero(s) ==
    LET num == Cat(<<Alt(<<Cat(<<Grp(1, Plus(D)),
                                 Opt(Cat(<<Lit("."), Grp(2, Star(D))>>))>>),
                           Cat(<<Lit("."), Grp(2, Plus(D))>>)>>)>>)
        res == M(num, s, 1, NoGroups(2))
        full == SelectSeq(res, LAMBDA r : r[1] = Len(s) + 1)
    IN
    IF s = "" THEN <<0>>
    ELSE IF full = <<>> THEN <<>>
    ELSE LET g == full[1][2]
             ip == SubSeq(s, g[1][1], g[1][2])
             fp == SubSeq(s, g[2][1], g[2][2]) \o "00"
         IN <<100 * Number(ip) + Number(SubSeq(fp, 1, 2))>>

\* float(s) for a string of digits and dots, in hundredths: <<value>>, or
\* <<>> for the ValueError of a string that is no number
PyFloat(s) ==
    LET num == Cat(<<Alt(<<Cat(<<Grp(1, Plus(D)),
                                 Opt(Cat(<<Lit("."), Grp(2, Star(D))>>))>>),
                           Cat(<<Lit("."), Grp(2, Plus(D))>>)>>)>>)
        res == M(num, s, 1, NoGroups(2))
        full == SelectSeq(res, LAMBDA r : r[1] = Len(s) + 1)
    IN
    IF full = <<>> THEN <<>>
    ELSE LET g == full[1][2]
             ip == SubSeq(s, g[1][1], g[1][2])
             fp == SubSeq(s, g[2][1], g[2][2]) \o "00"
         IN <<100 * Number(ip) + Number(SubSeq(fp, 1, 2))>>

RECURSIVE AmountsOfMatches(_, _, _)
\* The inner loop of extract_amounts over the matches of one pattern, from
\* the amounts so far: the amounts after it and whether float() raised.
AmountsOfMatches(matches, j, acc) ==
    IF j > Len(matches) THEN [raised |-> FALSE, amounts |-> acc]
    ELSE LET match == matches[j][1]
             numeric == FindAll(numeric_pattern[1], numeric_pattern[2], match)
         IN
         IF numeric = <<>> THEN AmountsOfMatches(matches, j + 1, acc)
         ELSE LET v == PyFloat(numeric[1][1]) IN
              IF v = <<>> THEN [raised |-> TRUE, amounts |-> acc]
              ELSE AmountsOfMatches(matches, j + 1, Append(acc, v[1]))

RECURSIVE AmountsLoop(_, _, _)
AmountsLoop(text, k, acc) ==
    IF k > Len(amount_patterns) THEN [raised |-> FALSE, amounts |-> acc]
    ELSE LET r == AmountsOfMatches(
                      FindAll(amount_patterns[k][1], amount_patterns[k][2],
                              text), 1, acc)
         IN IF r.raised THEN r ELSE AmountsLoop(text, k + 1, r.amounts)

\* AdvancedEntityExtractor.extract_amounts: the list returned, or raised
\* when float() raises ValueError (nothing in the source catches it)
extract_amounts(text) == AmountsLoop(text, 1, <<>>)

PrioritySearch(k, s) ==
    Search(priority_patterns[k][1], priority_patterns[k][2], s)

\* as extract_priority, asking for the low class first
extract_priority_low_first(text) ==
    LET text_lower == Lower(text) IN
    IF PrioritySearch(3, text_lower) THEN 1
    ELSE IF PrioritySearch(1, text_lower) THEN 4
    ELSE IF PrioritySearch(2, text_lower) THEN 3
    ELSE 2

\* as extract_priority, the levels counted from 0
extract_priority_from_zero(text) ==
    LET text_lower == Lower(text) IN
    IF PrioritySearch(1, text_lower) THEN 3
    ELSE IF PrioritySearch(2, text_lower) THEN 2
    ELSE IF PrioritySearch(3, text_lower) THEN 0
    ELSE 1

\* AdvancedEntityExtractor.extract_priority
extract_priority(text) ==
    LET text_lower == Lower(text) IN
    IF PrioritySearch(1, text_lower) THEN 4
    ELSE IF PrioritySearch(2, text_lower) THEN 3
    ELSE IF PrioritySearch(3, text_lower) THEN 1
    ELSE 2

(***************************************************************************)
(* ContextAwareProcessor: helpers                                           *)
(* None is the empty tuple <<>>; a str that may be None is a 1-tuple.      *)
(***************************************************************************)
None == <<>>

\* ContextAwareProcessor._extract_task_description
extract_task_description(text) ==
    LET c1 == SubI(Cat(<<WB, Grp(1, W(<<"add", "create", "new", "make",
                                        "task", "todo", "reminder">>)),
                         WB>>), 1, text)
        c2 == SubI(Cat(<<WB, Grp(1, W(<<"urgent", "important", "high", "low",
                                        "priority">>)), WB>>), 1, c1)
        c3 == SubI(Cat(<<WB, Grp(1, Alt(<<Lit("today"), Lit("tomorrow"),
                            Cat(<<Lit("next"), Plus(WS), Lit("week")>>),
                            Cat(<<Lit("by"), Plus(WS),
                                  Plus(Set(WordChar))>>)>>)), WB>>), 1, c2)
    IN Strip(c3)

\* ContextAwareProcessor._extract_expense_description
extract_expense_description(text) ==
    LET c1 == Sub(Cat(<<Lit("$"), Plus(D), Cents(1)>>), 1, text)
        c2 == SubI(Cat(<<WB, Grp(1, W(<<"spent", "spend", "cost", "paid",
                                        "pay", "for", "on">>)), WB>>), 1, c1)
    IN Strip(c2)

\* ContextAwareProcessor._extract_income_description
extract_income_description(text) ==
    LET c1 == Sub(Cat(<<Lit("$"), Plus(D), Cents(1)>>), 1, text)
        c2 == SubI(Cat(<<WB, Grp(1, W(<<"earned", "income", "salary",
                                        "received", "from">>)), WB>>), 1, c1)
    IN Strip(c2)

\* ContextAwareProcessor._extract_event_title
extract_event_title(text) ==
    LET c1 == SubI(Cat(<<WB, Grp(1, W(<<"schedule", "book", "plan",
                                        "appointment", "meeting",
                                        "event">>)), WB>>), 1, text)
        c2 == SubI(Cat(<<WB, Grp(1, W(<<"at", "on", "from", "until">>)),
                         Plus(WS), D12, Opt(Grp(2, Cat(<<Lit(":"), D2>>))),
                         Star(WS), Opt(Grp(3, W(<<"am", "pm">>))), WB>>),
                   3, c1)
    IN Strip(c2)

\* ContextAwareProcessor._extract_reminder_title
extract_reminder_title(text) ==
    Strip(SubI(Cat(<<WB, Grp(1, W(<<"remind", "reminder", "me", "to">>)),
                     WB>>), 1, text))

\* ContextAwareProcessor._extract_location: the pattern is matched without
\* regard to case, the group is read from the text as written
extract_location(text) ==
    LET location_match ==
            SearchFrom(Cat(<<WB, Grp(1, W(<<"at", "in", "@">>)), Plus(WS),
                             Grp(2, Plus(NSet({",", "\n"})))>>), 2,
                       Lower(text), 1)
    IN IF location_match # <<>>
       THEN Strip(GroupStr(text, location_match[1], 2))
       ELSE ""

\* as infer_category, asking for Finance first
infer_category_finance_first(text) ==
    LET text_lower == Lower(text) IN
    IF ContainsAny(text_lower,
                   <<"bill", "payment", "bank", "money", "budget">>)
    THEN "Finance"
    ELSE IF ContainsAny(text_lower,
                        <<"work", "office", "meeting", "project", "deadline">>)
    THEN "Work"
    ELSE IF ContainsAny(text_lower,
                        <<"doctor", "gym", "exercise", "health", "medicine">>)
    THEN "Health"
    ELSE IF ContainsAny(text_lower,
                        <<"learn", "study", "course", "book", "research">>)
    THEN "Learning"
    ELSE "Personal"

\* ContextAwareProcessor._infer_category
infer_category(text) ==
    LET text_lower == Lower(text) IN
    IF ContainsAny(text_lower,
                   <<"work", "office", "meeting", "project", "deadline">>)
    THEN "Work"
    ELSE IF ContainsAny(text_lower,
                        <<"doctor", "gym", "exercise", "health", "medicine">>)
    THEN "Health"
    ELSE IF ContainsAny(text_lower,
                        <<"learn", "study", "course", "book", "research">>)
    THEN "Learning"
    ELSE IF ContainsAny(text_lower,
                        <<"bill", "payment", "bank", "money", "budget">>)
    THEN "Finance"
    ELSE "Personal"

\* ContextAwareProcessor._infer_expense_category
infer_expense_category(text) ==
    LET text_lower == Lower(text) IN
    IF ContainsAny(text_lower, <<"food", "restaurant", "lunch", "dinner",
                                 "coffee", "grocery">>)
    THEN "Food"
    ELSE IF ContainsAny(text_lower, <<"gas", "uber", "taxi", "bus", "train",
                                      "transport">>)
    THEN "Transport"
    ELSE IF ContainsAny(text_lower, <<"movie", "game", "entertainment",
                                      "concert", "show">>)
    THEN "Entertainment"
    ELSE IF ContainsAny(text_lower, <<"electric", "water", "internet",
                                      "phone", "utility">>)
    THEN "Utilities"
    ELSE IF ContainsAny(text_lower,
                        <<"doctor", "medicine", "pharmacy", "health">>)
    THEN "Healthcare"
    ELSE "Other"

\* ContextAwareProcessor._extract_task_filter
extract_task_filter(text) ==
    LET text_lower == Lower(text) IN
    IF Contains(text_lower, "urgent") \/ Contains(text_lower, "high priority")
    THEN "high_priority"
    ELSE IF Contains(text_lower, "today") THEN "today"
    ELSE IF Contains(text_lower, "overdue") THEN "overdue"
    ELSE "all"

\* str(x) inside an f-string: a str as it is, a tuple of two strings as
\* its repr
PyStr(item) ==
    IF IsTuple(item)
    THEN "('" \o item[1] \o "', '" \o item[2] \o "')"
    ELSE item[1]

\* %I and %M of time.strptime
HourI   == Alt(<<Cat(<<Lit("1"), Set({"0", "1", "2"})>>),
                 Cat(<<Lit("0"), Set(Digit \ {"0"})>>),
                 Set(Digit \ {"0"})>>)
MinuteM == Alt(<<Cat(<<Set({"0", "1", "2", "3", "4", "5"}), D>>), D>>)

\* datetime.strptime(time_str, '%I:%M %p' or '%I %p').strftime('%H:%M'):
\* <<"HH:MM">>, or <<>> for the ValueError of a string that does not match
\* the format or goes on after it
Reparse(time_str) ==
    LET fmt == IF Contains(time_str, ":")
               THEN Cat(<<Grp(1, HourI), Lit(":"), Grp(2, MinuteM), Plus(WS),
                          Grp(3, W(<<"am", "pm">>))>>)
               ELSE Cat(<<Grp(1, HourI), Plus(WS),
                          Grp(3, W(<<"am", "pm">>))>>)
        res == M(fmt, Lower(time_str), 1, NoGroups(3))
    IN
    IF res = <<>> \/ res[1][1] # Len(time_str) + 1 THEN <<>>
    ELSE LET g    == res[1][2]
             hour == Number(SubSeq(time_str, g[1][1], g[1][2]))
             min  == Number(SubSeq(time_str, g[2][1], g[2][2]))
             pm   == SubSeq(Lower(time_str), g[3][1], g[3][2]) = "pm"
             h24  == IF pm THEN (IF hour = 12 THEN 12 ELSE hour + 12)
                     ELSE (IF hour = 12 THEN 0 ELSE hour)
         IN <<Pad2(h24) \o ":" \o Pad2(min)>>

\* ContextAwareProcessor._combine_date_time: None, or the string as <<str>>
combine_date_time(dates, times, today) ==
    IF dates = <<>> /\ times = <<>> THEN None
    ELSE
    LET date_str == IF dates # <<>> THEN PyStr(dates[1]) ELSE StrfDate(today)
        time0    == IF times # <<>> THEN times[1] ELSE "09:00"
        time_str == IF Contains(Lower(time0), "am")
                       \/ Contains(Lower(time0), "pm")
                    THEN Lower(time0)
                    ELSE time0 \o ":00"
    IN
    IF Contains(time_str, "am") \/ Contains(time_str, "pm")
    THEN LET t == Reparse(time_str) IN
         IF t = <<>> THEN <<date_str \o " 09:00">>
         ELSE <<date_str \o " " \o t[1]>>
    ELSE <<date_str \o " " \o time_str>>

(***************************************************************************)
(* ContextAwareProcessor: the generators.  entities is the record          *)
(* [dates, times, amounts, priority].                                      *)
(***************************************************************************)
\* ContextAwareProcessor._generate_task_actions
generate_task_actions(text, entities) ==
    LET text_lower == Lower(text) IN
    IF ContainsAny(text_lower, <<"add", "create", "new", "make">>)
    THEN << [type |-> "create_task",
             data |-> [task |-> extract_task_description(text),
                       priority |-> entities.priority,
                       deadline |-> IF entities.dates # <<>>
                                    THEN entities.dates[1] ELSE None,
                       category |-> infer_category(text)]] >>
    ELSE IF ContainsAny(text_lower, <<"complete", "finish", "done", "mark">>)
    THEN << [type |-> "complete_task", data |-> [task_query |-> text]] >>
    ELSE IF ContainsAny(text_lower, <<"show", "list", "view">>)
    THEN << [type |-> "list_tasks",
             data |-> [filter |-> extract_task_filter(text)]] >>
    ELSE <<>>

\* as DateOrToday, today's date whatever the dates
DateOrToday_always_today(entities, today) == <<StrfDate(today)>>

\* entities['dates'][0] if entities['dates'] else today's date
DateOrToday(entities, today) ==
    IF entities.dates # <<>> THEN entities.dates[1] ELSE <<StrfDate(today)>>

\* as generate_budget_actions, the summary only for a text without a verb
\* of an expense or an income
generate_budget_actions_verbless(text, entities, today) ==
    LET text_lower == Lower(text) IN
    IF entities.amounts # <<>>
       /\ ContainsAny(text_lower, <<"spent", "spend", "cost", "paid", "pay">>)
    THEN << [type |-> "add_expense",
             data |-> [amount |-> entities.amounts[1],
                       description |-> extract_expense_description(text),
                       category |-> infer_expense_category(text),
                       date |-> DateOrToday(entities, today)]] >>
    ELSE IF entities.amounts # <<>>
            /\ ContainsAny(text_lower,
                           <<"earned", "income", "salary", "received">>)
    THEN << [type |-> "add_income",
             data |-> [amount |-> entities.amounts[1],
                       description |-> extract_income_description(text),
                       date |-> DateOrToday(entities, today)]] >>
    ELSE IF ContainsAny(text_lower, <<"show", "view", "check", "summary">>)
            /\ ~ContainsAny(text_lower,
                            <<"spent", "spend", "cost", "paid", "pay",
                              "earned", "income", "salary", "received">>)
    THEN << [type |-> "show_budget_summary", data |-> <<>>] >>
    ELSE <<>>

\* ContextAwareProcessor._generate_budget_actions
generate_budget_actions(text, entities, today) ==
    LET text_lower == Lower(text) IN
    IF entities.amounts # <<>>
       /\ ContainsAny(text_lower, <<"spent", "spend", "cost", "paid", "pay">>)
    THEN << [type |-> "add_expense",
             data |-> [amount |-> entities.amounts[1],
                       description |-> extract_expense_description(text),
                       category |-> infer_expense_category(text),
                       date |-> DateOrToday(entities, today)]] >>
    ELSE IF entities.amounts # <<>>
            /\ ContainsAny(text_lower,
                           <<"earned", "income", "salary", "received">>)
    THEN << [type |-> "add_income",
             data |-> [amount |-> entities.amounts[1],
                       description |-> extract_income_description(text),
                       date |-> DateOrToday(entities, today)]] >>
    ELSE IF ContainsAny(text_lower, <<"show", "view", "check", "summary">>)
    THEN << [type |-> "show_budget_summary", data |-> <<>>] >>
    ELSE <<>>

\* as generate_schedule_actions, the reminder being asked for on its own
generate_schedule_actions_both(text, entities, today) ==
    (IF ContainsAny(Lower(text), <<"schedule", "book", "plan", "appointment",
                                   "meeting">>)
     THEN << [type |-> "create_event",
              data |-> [title |-> extract_event_title(text),
                        start_time |-> combine_date_time(entities.dates,
                                                         entities.times, today),
                        description |-> text,
                        location |-> extract_location(text)]] >>
     ELSE <<>>)
    \o (IF ContainsAny(Lower(text), <<"remind", "reminder">>)
        THEN << [type |-> "set_reminder",
                 data |-> [title |-> extract_reminder_title(text),
                           time |-> combine_date_time(entities.dates,
                                                      entities.times, today),
                           description |-> text]] >>
        ELSE <<>>)

\* ContextAwareProcessor._generate_schedule_actions
generate_schedule_actions(text, entities, today) ==
    LET text_lower == Lower(text) IN
    IF ContainsAny(text_lower, <<"schedule", "book", "plan", "appointment",
                                 "meeting">>)
    THEN << [type |-> "create_event",
             data |-> [title |-> extract_event_title(text),
                       start_time |-> combine_date_time(entities.dates,
                                                        entities.times, today),
                       description |-> text,
                       location |-> extract_location(text)]] >>
    ELSE IF ContainsAny(text_lower, <<"remind", "reminder">>)
    THEN << [type |-> "set_reminder",
             data |-> [title |-> extract_reminder_title(text),
                       time |-> combine_date_time(entities.dates,
                                                  entities.times, today),
                       description |-> text]] >>
    ELSE <<>>

\* ContextAwareProcessor._generate_query_actions
generate_query_actions(text, entities) ==
    IF ContainsAny(Lower(text), <<"status", "summary", "overview", "report">>)
    THEN << [type |-> "generate_summary", data |-> [query |-> text]] >>
    ELSE <<>>

\* as generate_actions_for_intent, with the task generator for conversation
generate_actions_for_intent_chatty(intent, text, entities, today) ==
    IF intent \in {"task_management", "conversation"}
    THEN generate_task_actions(text, entities)
    ELSE IF intent = "budget_management"
    THEN generate_budget_actions(text, entities, today)
    ELSE IF intent = "schedule_management"
    THEN generate_schedule_actions(text, entities, today)
    ELSE IF intent = "information_query"
    THEN generate_query_actions(text, entities)
    ELSE <<>>

\* ContextAwareProcessor._generate_actions_for_intent
generate_actions_for_intent(intent, text, entities, today) ==
    IF intent = "task_management" THEN generate_task_actions(text, entities)
    ELSE IF intent = "budget_management"
    THEN generate_budget_actions(text, entities, today)
    ELSE IF intent = "schedule_management"
    THEN generate_schedule_actions(text, entities, today)
    ELSE IF intent = "information_query"
    THEN generate_query_actions(text, entities)
    ELSE <<>>

\* as calculate_confidence, without the early return on conversation
calculate_confidence_counting(intents) ==
    LET specific_intents == SelectSeq(intents, LAMBDA i : i # "conversation")
    IN IF Len(specific_intents) >= 2 THEN 9
       ELSE IF Len(specific_intents) = 1 THEN 8
       ELSE 6

\* ContextAwareProcessor._calculate_confidence, in tenths (6 is 0.6)
calculate_confidence(intents) ==
    IF intents = <<>> \/ \E k \in 1..Len(intents) : intents[k] = "conversation"
    THEN 6
    ELSE LET specific_intents ==
                 SelectSeq(intents, LAMBDA i : i # "conversation")
         IN IF Len(specific_intents) >= 2 THEN 9
            ELSE IF Len(specific_intents) = 1 THEN 8
            ELSE 6

(***************************************************************************)
(* The clock of the suggestions: datetime.now() is day today at minute     *)
(* minute of that day, with no seconds; an instant is counted in seconds   *)
(* from 2024-01-01 00:00:00.                                               *)
(***************************************************************************)
RECURSIVE DaysBeforeYear(_)
\* the days from 2024-01-01 to the first day of year y
DaysBeforeYear(y) ==
    IF y = 2024 THEN 0
    ELSE IF y > 2024 THEN DaysBeforeYear(y - 1) + DaysInYear(y - 1)
    ELSE DaysBeforeYear(y + 1) - DaysInYear(y)

RECURSIVE DaysBeforeMonth(_, _)
DaysBeforeMonth(y, m) ==
    IF m = 1 THEN 0 ELSE DaysBeforeMonth(y, m - 1) + DaysInMonth(y, m - 1)

\* the day number of the date y-m-d
DayNumber(y, m, d) == DaysBeforeYear(y) + DaysBeforeMonth(y, m) + d - 1

Instant(day, h, m, s) == ((day * 24 + h) * 60 + m) * 60 + s

\* datetime.now()
Now(day, m) == Instant(day, m \div 60, m % 60, 0)

\* a date that datetime() accepts
ValidDate(y, m, d) ==
    y >= 1 /\ m \in 1..12 /\ d >= 1 /\ d <= DaysInMonth(y, m)

\* the span k of the groups g, read from s
Span(s, g, k) == SubSeq(s, g[k][1], g[k][2])

\* %Y-%m-%d as time.strptime compiles it
StrpDateFormat ==
    Cat(<<Grp(1, Cat(<<D, D, D, D>>)), Lit("-"),
          Grp(2, Alt(<<Cat(<<Lit("1"), Set({"0", "1", "2"})>>),
                       Cat(<<Lit("0"), Set(Digit \ {"0"})>>),
                       Set(Digit \ {"0"})>>)), Lit("-"),
          Grp(3, Alt(<<Cat(<<Lit("3"), Set({"0", "1"})>>),
                       Cat(<<Set({"1", "2"}), D>>),
                       Cat(<<Lit("0"), Set(Digit \ {"0"})>>),
                       Set(Digit \ {"0"}),
                       Cat(<<Lit(" "), Set(Digit \ {"0"})>>)>>))>>)

\* the date of the groups g of a match, as <<day number>>, or <<>> for the
\* ValueError of a day that is not in the month
DateOfGroups(s, g) ==
    IF ValidDate(Number(Span(s, g, 1)), Number(Span(s, g, 2)),
                 Number(Strip(Span(s, g, 3))))
    THEN <<DayNumber(Number(Span(s, g, 1)), Number(Span(s, g, 2)),
                     Number(Strip(Span(s, g, 3))))>>
    ELSE <<>>

\* the first way res the format matches s: it has to end where s ends
\* (ValueError: unconverted data remains)
StrpDateOf(res, s) ==
    IF res = <<>> \/ res[1][1] # Len(s) + 1 THEN <<>>
    ELSE DateOfGroups(s, res[1][2])

\* datetime.strptime(s, '%Y-%m-%d'): <<day number>>, or <<>> for ValueError
StrpDate(s) == StrpDateOf(M(StrpDateFormat, s, 1, NoGroups(3)), s)

RECURSIVE ReplaceZ(_)
\* s.replace('Z', '+00:00')
ReplaceZ(s) ==
    IF s = "" THEN ""
    ELSE (IF Head(s) = "Z" THEN "+00:00" ELSE Head(s)) \o ReplaceZ(Tail(s))

\* YYYY-MM-DD[*HH[:MM[:SS]][+HH:MM]], the extended ISO format
IsoFormat ==
    Cat(<<Grp(1, Cat(<<D, D, D, D>>)), Lit("-"), Grp(2, D2), Lit("-"),
          Grp(3, D2),
          Opt(Cat(<<NSet({}), Grp(4, D2),
                    Opt(Cat(<<Lit(":"), Grp(5, D2),
                              Opt(Cat(<<Lit(":"), Grp(6, D2)>>))>>)),
                    Opt(Grp(7, Cat(<<Set({"+", "-"}), D2, Lit(":"),
                                     D2>>)))>>))>>)

\* the datetime of the groups g: <<[aware, at]>> with the instant and
\* whether it carries a UTC offset, or <<>> for the ValueError of a field
\* out of range
IsoOfGroups(s, g) ==
    IF /\ ValidDate(Number(Span(s, g, 1)), Number(Span(s, g, 2)),
                    Number(Span(s, g, 3)))
       /\ Number(Span(s, g, 4)) < 24
       /\ Number(Span(s, g, 5)) < 60
       /\ Number(Span(s, g, 6)) < 60
    THEN << [aware |-> Span(s, g, 7) # "",
             at |-> Instant(DayNumber(Number(Span(s, g, 1)),
                                      Number(Span(s, g, 2)),
                                      Number(Span(s, g, 3))),
                            Number(Span(s, g, 4)), Number(Span(s, g, 5)),
                            Number(Span(s, g, 6)))] >>
    ELSE <<>>

\* the way of res that takes the whole of s, if there is one
IsoOf(full, s) == IF full = <<>> THEN <<>> ELSE IsoOfGroups(s, full[1][2])

WholeOf(res, s) == SelectSeq(res, LAMBDA r : r[1] = Len(s) + 1)

\* datetime.fromisoformat(s), for the extended format
FromIsoFormat(s) == IsoOf(WholeOf(M(IsoFormat, s, 1, NoGroups(7)), s), s)

(***************************************************************************)
(* shared.py: the collections tasks, budget_entries and schedule_events    *)
(* (lists of records) and the two summaries the suggestions read.  A task  *)
(* is [done, deadline], the deadline None or <<str>>; a budget entry is    *)
(* [type, amount, date], the amount in hundredths; an event is             *)
(* [title, start_time].                                                    *)
(***************************************************************************)
\* str.startswith
StartsWith(s, p) == Len(s) >= Len(p) /\ SubSeq(s, 1, Len(p)) = p

\* datetime.now().strftime("%Y-%m")
CurrentMonth(day) == SubSeq(StrfDate(day), 1, 7)

RECURSIVE SumAmounts(_, _, _, _)
\* sum(entry['amount'] for entry in budget_entries[k..]
\*     if entry['type'] == type and entry['date'].startswith(month))
SumAmounts(entries, k, type, month) ==
    IF k > Len(entries) THEN 0
    ELSE (IF entries[k].type = type /\ StartsWith(entries[k].date, month)
          THEN entries[k].amount ELSE 0)
         + SumAmounts(entries, k + 1, type, month)

\* the dict get_budget_summary returns, without the breakdown by category
Summary(total_income, total_expenses) ==
    [total_income |-> total_income, total_expenses |-> total_expenses,
     balance |-> total_income - total_expenses]

\* as get_budget_summary, over the entries of every month
get_budget_summary_of_all_months(entries, day) ==
    Summary(SumAmounts(entries, 1, "income", ""),
            SumAmounts(entries, 1, "expense", ""))

\* shared.get_budget_summary
get_budget_summary(entries, day) ==
    Summary(SumAmounts(entries, 1, "income", CurrentMonth(day)),
            SumAmounts(entries, 1, "expense", CurrentMonth(day)))

\* the characters in the order of their code points
CodeOrder ==
    "\t\n $'()+,-./" \o DigitChars \o ":@" \o UpperChars \o "_" \o LowerChars

CharCode(c) == CHOOSE i \in 1..Len(CodeOrder) : CharAt(CodeOrder, i) = c

RECURSIVE StrLess(_, _)
\* a < b on str
StrLess(a, b) ==
    IF a = "" THEN b # ""
    ELSE IF b = "" THEN FALSE
    ELSE IF Head(a) = Head(b) THEN StrLess(Tail(a), Tail(b))
    ELSE CharCode(Head(a)) < CharCode(Head(b))

RECURSIVE InsertByStart(_, _, _)
\* e put into the sorted list after the elements from k on that do not
\* come after it (sorted() is stable)
InsertByStart(sorted, e, k) ==
    IF k > Len(sorted) THEN Append(sorted, e)
    ELSE IF StrLess(e.start_time, sorted[k].start_time)
    THEN SubSeq(sorted, 1, k - 1) \o <<e>> \o SubSeq(sorted, k, Len(sorted))
    ELSE InsertByStart(sorted, e, k + 1)

RECURSIVE SortByStart(_, _, _)
\* sorted(events, key=lambda x: x['start_time'])
SortByStart(events, k, sorted) ==
    IF k > Len(events) THEN sorted
    ELSE SortByStart(events, k + 1, InsertByStart(sorted, events[k], 1))

\* now <= event_time <= future_date; a start_time that does not parse is
\* skipped, and so is one with a UTC offset (the comparison with now raises
\* TypeError, which the bare except takes)
InWindow(parsed, now, days) ==
    /\ parsed # <<>>
    /\ ~parsed[1].aware
    /\ now <= parsed[1].at
    /\ parsed[1].at <= now + days * Instant(1, 0, 0, 0)

\* shared.get_upcoming_events
get_upcoming_events(events, now, days) ==
    SortByStart(SelectSeq(events,
                          LAMBDA e : InWindow(FromIsoFormat(
                                                  ReplaceZ(e.start_time)),
                                              now, days)),
                1, <<>>)

(***************************************************************************)
(* get_smart_suggestions                                                   *)
(***************************************************************************)
RECURSIVE PyInt(_)
\* str(n) for n >= 0
PyInt(n) == IF n < 10 THEN Dig(n) ELSE PyInt(n \div 10) \o Dig(n % 10)

\* f"{c:.2f}" of an amount of c hundredths, c >= 0
Money(c) == PyInt(c \div 100) \o "." \o Pad2(c % 100)

Abs(n) == IF n < 0 THEN -n ELSE n

\* the deadline d parsed, <<>> when it did not parse: deadline < now
DeadlineBefore(d, now) == d # <<>> /\ Instant(d[1], 0, 0, 0) < now

\* the body of the loop over pending_tasks: is the task appended
IsOverdue(task, now) ==
    /\ task.deadline # None
    /\ task.deadline[1] # ""
    /\ DeadlineBefore(StrpDate(task.deadline[1]), now)

\* [t for t in tasks if not t.get('done', False)]
PendingTasks(task_list) == SelectSeq(task_list, LAMBDA t : ~t.done)

OverdueTasks(pending_tasks, now) ==
    SelectSeq(pending_tasks, LAMBDA t : IsOverdue(t, now))

\* the task-based suggestions
TaskSuggestions(pending_tasks, overdue_tasks) ==
    (IF overdue_tasks # <<>>
     THEN <<"You have " \o PyInt(Len(overdue_tasks))
            \o " overdue tasks. Would you like to review them?">>
     ELSE <<>>)
    \o (IF Len(pending_tasks) > 10
        THEN <<"You have many pending tasks. Consider prioritizing or breaking them down.">>
        ELSE <<>>)

\* as SummarySuggestions, the spending rule being an elif of the deficit
\* rule
SummarySuggestions_either(summary) ==
    IF summary.balance < 0
    THEN <<"Your budget is $" \o Money(Abs(summary.balance))
           \o " over. Consider reviewing expenses.">>
    ELSE IF 10 * summary.total_expenses > 8 * summary.total_income
    THEN <<"You're spending close to your income limit. Track expenses carefully.">>
    ELSE <<>>

\* the budget-based suggestions of a summary;  expenses > income * 0.8  is
\* taken on the exact amounts
SummarySuggestions(summary) ==
    (IF summary.balance < 0
     THEN <<"Your budget is $" \o Money(Abs(summary.balance))
            \o " over. Consider reviewing expenses.">>
     ELSE <<>>)
    \o (IF 10 * summary.total_expenses > 8 * summary.total_income
        THEN <<"You're spending close to your income limit. Track expenses carefully.">>
        ELSE <<>>)

\* if budget_entries: ...
BudgetSuggestions(entries, day) ==
    IF entries # <<>> THEN SummarySuggestions(get_budget_summary(entries, day))
    ELSE <<>>

\* the schedule-based suggestion
EventSuggestions(upcoming) ==
    IF upcoming # <<>>
    THEN <<"You have " \o PyInt(Len(upcoming))
           \o " events coming up today. Need any preparation reminders?">>
    ELSE <<>>

\* the time-based suggestion
TimeSuggestions(current_hour) ==
    IF 9 <= current_hour /\ current_hour <= 11
    THEN <<"Good morning! Ready to tackle today's priorities?">>
    ELSE IF 13 <= current_hour /\ current_hour <= 14
    THEN <<"Afternoon check-in: How are your tasks progressing?">>
    ELSE IF 17 <= current_hour /\ current_hour <= 19
    THEN <<"End of day: Want to review what you accomplished?">>
    ELSE <<>>

\* as Top3, without the cut
Top3_uncut(strings) == strings

\* suggestions[:3]
Top3(strings) ==
    SubSeq(strings, 1, IF Len(strings) < 3 THEN Len(strings) ELSE 3)

\* the list get_smart_suggestions has appended to when it reaches its
\* return statement, the import of shared having succeeded
collect_suggestions(task_list, entries, events, day, m) ==
    TaskSuggestions(PendingTasks(task_list),
                    OverdueTasks(PendingTasks(task_list), Now(day, m)))
    \o BudgetSuggestions(entries, day)
    \o EventSuggestions(get_upcoming_events(events, Now(day, m), 1))
    \o TimeSuggestions(m \div 60)

\* get_smart_suggestions, the import of shared having succeeded
get_smart_suggestions(task_list, entries, events, day, m) ==
    Top3(collect_suggestions(task_list, entries, events, day, m))

(***************************************************************************)
(* The inputs                                                              *)
(***************************************************************************)
\* the longest text, in phrases of the vocabulary
MaxWords == 2
\* the longest list handed to _combine_date_time
MaxList == 1

Vocabulary ==
    {"add task", "buy milk", "today", "urgent", "low priority,", "important",
     "spent $12", "12 dollars", "$45.50", "high priority", "show tasks",
     "meeting at 3:30 pm"}

\* the utterances the specification of the core quotes
Examples ==
    {"", "I spent $45.50 on lunch", "no money mentioned",
     "I spent $12 on coffee today", "hello there, how are you",
     "this is urgent, do it now", "low priority, urgent actually",
     "12.50 bucks", "Add Task buy new shoes", "unimportant, eventually",
     "hello daddy", "see you Tomorrow", "next week", "next month",
     "next monday", "january 5", "in 3 days", "12/05/2024", "3:30 pm",
     "in the morning", "at 5", "mark task done", "show tasks for the new project",
     "mark task done and show tasks",
     "urgent: add task for the meeting tomorrow at 3:30 pm"}

RECURSIVE Phrases(_)
\* the texts of at most n phrases of the vocabulary, a space between two
Phrases(n) ==
    IF n = 0 THEN {""}
    ELSE LET shorter == Phrases(n - 1) IN
         shorter \cup {IF p = "" THEN v ELSE p \o " " \o v :
                         p \in shorter, v \in Vocabulary}

Texts == Examples \cup Phrases(MaxWords)

\* 2024-05-01 and 2024-12-31
Days == {121, 365}

DateItems == {<<"2024-05-01">>, <<"12/05/2024">>, <<"next", "week">>}
TimeItems == {"3 pm", "3:30 pm", "12 am", "3pm", "13 pm", "3:30 PM",
              "morning", "at 5", ":30", ""}

RECURSIVE Lists(_, _)
\* the lists of at most n elements of S
Lists(S, n) ==
    IF n = 0 THEN {<<>>}
    ELSE LET shorter == Lists(S, n - 1) IN
         shorter \cup {Append(l, x) : l \in shorter, x \in S}

(***************************************************************************)
(* State: one call of process_complex_input (process_user_input), its      *)
(* locals and the fields of its result; and one call of                    *)
(* _combine_date_time.                                                     *)
(***************************************************************************)
VARIABLES
    text,        \* user_input
    today,       \* the day datetime.now() falls on
    pc,          \* the statement the call is at
    intents,     \* result['intents']
    dates,       \* result['entities']['dates']
    times,       \* result['entities']['times']
    amounts,     \* result['entities']['amounts'], in hundredths
    priority,    \* result['entities']['priority'], 0 before it is set
    confidence,  \* result['confidence'] in tenths, 0 before it is set
    actions,     \* result['actions']
    idx,         \* the position of the loop over intents
    combined,    \* what _combine_date_time returned
    context,     \* the context argument of the call
    earlier,     \* the calls of process_complex_input that have ended
    tasks,            \* shared.tasks
    budget_entries,   \* shared.budget_entries
    schedule_events,  \* shared.schedule_events
    minute,      \* the minute of the day datetime.now() falls on
    suggestions, \* None, or <<what get_smart_suggestions returned>>
    collected,   \* None, or <<the list it held before it cut it>>
    gui,         \* the lists the names of assistant_gui are bound to
    db,          \* the rows of the tables of the database, oldest first
    sqlite_sequence,  \* the last AUTOINCREMENT id of each table
    removed,     \* the ids of the entries delete_selected_budget has popped
    chat_history,     \* shared.chat_history
    clock        \* the calls of datetime.now() so far

\* the collections of shared.py
store == <<tasks, budget_entries, schedule_events>>

\* what lies outside one call of process_complex_input
desk == <<gui, db, sqlite_sequence, removed, chat_history, clock>>

session == <<context, earlier, minute, suggestions, collected, desk>>

vars == <<text, today, pc, intents, dates, times, amounts, priority,
          confidence, actions, idx, combined, store, session>>

EmptyLists == [tasks |-> <<>>, budget_entries |-> <<>>,
               schedule_events |-> <<>>]

EmptyDb == [tasks |-> <<>>, budget_entries |-> <<>>, schedule_events |-> <<>>,
            chat_history |-> <<>>]

\* no window, an empty database and no chat
NoDesk ==
    /\ gui = EmptyLists
    /\ db = EmptyDb
    /\ sqlite_sequence = [tasks |-> 0, budget_entries |-> 0,
                          schedule_events |-> 0]
    /\ removed = {}
    /\ chat_history = <<>>
    /\ clock = 0

\* no collection holds anything and nothing has been called
EmptySession ==
    /\ context = "None"
    /\ earlier = <<>>
    /\ tasks = <<>>
    /\ budget_entries = <<>>
    /\ schedule_events = <<>>
    /\ minute = 0
    /\ suggestions = None
    /\ collected = None
    /\ NoDesk

entities == [dates |-> dates, times |-> times, amounts |-> amounts,
             priority |-> priority]

Init ==
    /\ text \in Texts
    /\ today \in Days
    /\ pc = "classify"
    /\ intents = <<>>
    /\ dates = <<>>
    /\ times = <<>>
    /\ amounts = <<>>
    /\ priority = 0
    /\ confidence = 0
    /\ actions = <<>>
    /\ idx = 0
    /\ combined = None
    /\ EmptySession

\* intents = self.intent_classifier.classify_intent(user_input)
Classify ==
    /\ pc = "classify"
    /\ intents' = classify_intent(text)
    /\ pc' = "extract_dates"
    /\ UNCHANGED <<text, today, dates, times, amounts, priority, confidence,
                   actions, idx, combined>>
    /\ UNCHANGED <<store, session>>

\* dates = self.entity_extractor.extract_dates(user_input)
ExtractDates ==
    /\ pc = "extract_dates"
    /\ dates' = extract_dates(text, today)
    /\ pc' = "extract_times"
    /\ UNCHANGED <<text, today, intents, times, amounts, priority,
                   confidence, actions, idx, combined>>
    /\ UNCHANGED <<store, session>>

\* times = self.entity_extractor.extract_times(user_input)
ExtractTimes ==
    /\ pc = "extract_times"
    /\ times' = extract_times(text)
    /\ pc' = "extract_amounts"
    /\ UNCHANGED <<text, today, intents, dates, amounts, priority,
                   confidence, actions, idx, combined>>
    /\ UNCHANGED <<store, session>>

\* amounts = self.entity_extractor.extract_amounts(user_input); a
\* ValueError of float() leaves the call (pc = "raised")
ExtractAmounts ==
    /\ pc = "extract_amounts"
    /\ LET r == extract_amounts(text) IN
       /\ amounts' = r.amounts
       /\ pc' = IF r.raised THEN "raised" ELSE "extract_priority"
    /\ UNCHANGED <<text, today, intents, dates, times, priority, confidence,
                   actions, idx, combined>>
    /\ UNCHANGED <<store, session>>

\* priority = self.entity_extractor.extract_priority(user_input)
ExtractPriority ==
    /\ pc = "extract_priority"
    /\ priority' = extract_priority(text)
    /\ pc' = "build_result"
    /\ UNCHANGED <<text, today, intents, dates, times, amounts, confidence,
                   actions, idx, combined>>
    /\ UNCHANGED <<store, session>>

\* as BuildResult, with full confidence when the caller gives a context
BuildResult_by_context ==
    /\ pc = "build_result"
    /\ confidence' = IF context = "None" THEN calculate_confidence(intents)
                     ELSE 10
    /\ actions' = <<>>
    /\ idx' = 1
    /\ pc' = "generate"
    /\ UNCHANGED <<text, today, intents, dates, times, amounts, priority,
                   combined>>
    /\ UNCHANGED <<store, session>>

\* result = {..., 'actions': [], 'confidence': self._calculate_confidence()}
BuildResult ==
    /\ pc = "build_result"
    /\ confidence' = calculate_confidence(intents)
    /\ actions' = <<>>
    /\ idx' = 1
    /\ pc' = "generate"
    /\ UNCHANGED <<text, today, intents, dates, times, amounts, priority,
                   combined>>
    /\ UNCHANGED <<store, session>>

\* as GenerateActions, the new actions going before the earlier ones
GenerateActions_prepending ==
    /\ pc = "generate"
    /\ idx <= Len(intents)
    /\ actions' = generate_actions_for_intent(intents[idx], text, entities,
                                              today) \o actions
    /\ idx' = idx + 1
    /\ UNCHANGED <<text, today, pc, intents, dates, times, amounts, priority,
                   confidence, combined>>
    /\ UNCHANGED <<store, session>>

\* one turn of  for intent in intents: result['actions'].extend(...)
GenerateActions ==
    /\ pc = "generate"
    /\ idx <= Len(intents)
    /\ actions' = actions \o generate_actions_for_intent(intents[idx], text,
                                                         entities, today)
    /\ idx' = idx + 1
    /\ UNCHANGED <<text, today, pc, intents, dates, times, amounts, priority,
                   confidence, combined>>
    /\ UNCHANGED <<store, session>>

\* return result
Return ==
    /\ pc = "generate"
    /\ idx > Len(intents)
    /\ pc' = "done"
    /\ UNCHANGED <<text, today, intents, dates, times, amounts, priority,
                   confidence, actions, idx, combined>>
    /\ UNCHANGED <<store, session>>

Next ==
    \/ Classify
    \/ ExtractDates
    \/ ExtractTimes
    \/ ExtractAmounts
    \/ ExtractPriority
    \/ BuildResult
    \/ GenerateActions
    \/ Return

Spec == Init /\ [][Next]_vars

(***************************************************************************)
(* One call of _combine_date_time on lists of its own                      *)
(***************************************************************************)
InitCombine ==
    /\ text = ""
    /\ today \in Days
    /\ pc = "combine"
    /\ intents = <<>>
    /\ dates \in Lists(DateItems, MaxList)
    /\ times \in Lists(TimeItems, MaxList)
    /\ amounts = <<>>
    /\ priority = 0
    /\ confidence = 0
    /\ actions = <<>>
    /\ idx = 0
    /\ combined = None
    /\ EmptySession

Combine ==
    /\ pc = "combine"
    /\ combined' = combine_date_time(dates, times, today)
    /\ pc' = "combined"
    /\ UNCHANGED <<text, today, intents, dates, times, amounts, priority,
                   confidence, actions, idx>>
    /\ UNCHANGED <<store, session>>

NextCombine == Combine

SpecCombine == InitCombine /\ [][NextCombine]_vars

(***************************************************************************)
(* get_smart_suggestions over the collections of shared.py                 *)
(***************************************************************************)
\* the pending tasks that fill a long list
MaxFill == 11

\* tasks due 2024-04-30 (one of them done), 2024-05-01 and 2024-04-31,
\* with a deadline that is no date, with none and with an empty one
TaskItems ==
    {[done |-> FALSE, deadline |-> <<"2024-04-30">>],
     [done |-> TRUE, deadline |-> <<"2024-04-30">>],
     [done |-> FALSE, deadline |-> <<"2024-05-01">>],
     [done |-> FALSE, deadline |-> <<"2024-04-31">>],
     [done |-> FALSE, deadline |-> <<"next monday">>],
     [done |-> FALSE, deadline |-> <<"">>]}

Filler == [done |-> FALSE, deadline |-> None]

Repeat(x, n) == [k \in 1..n |-> x]

TaskLists ==
    {head \o Repeat(Filler, n) :
       head \in Lists(TaskItems, MaxList), n \in {0, MaxFill - 1, MaxFill}}

Income(amount, date)  == [type |-> "income", amount |-> amount, date |-> date]
Expense(amount, date) == [type |-> "expense", amount |-> amount, date |-> date]

\* budgets of May 2024: none, income only, expenses at 80% of the income,
\* just above it, above the income, expenses only, and one of April
BudgetLists ==
    {<<>>,
     <<Income(100000, "2024-05-03")>>,
     <<Income(100000, "2024-05-03"), Expense(80000, "2024-05-02")>>,
     <<Expense(50000, "2024-05-02"), Income(100000, "2024-05-03"),
       Expense(30001, "2024-05-10")>>,
     <<Income(100000, "2024-05-03"), Expense(112050, "2024-05-01")>>,
     <<Expense(1200, "2024-05-01")>>,
     <<Income(100000, "2024-04-03"), Expense(112050, "2024-04-01")>>}

Event(title, start_time) == [title |-> title, start_time |-> start_time]

EventLists ==
    {<<>>,
     <<Event("standup", "2024-05-01 09:00")>>,
     <<Event("review", "2024-05-01T20:00:00"),
       Event("standup", "2024-05-01 09:00:00")>>,
     <<Event("call", "2024-05-01T09:00:00Z"),
       Event("trip", "('next', 'week') 09:00")>>,
     <<Event("dentist", "2024-05-03 10:00"),
       Event("party", "2024-12-31 23:30")>>}

\* 00:00, 09:30, 13:30 and 18:00
Minutes == {0, 570, 810, 1080}

InitSuggest ==
    /\ text = ""
    /\ today \in Days
    /\ pc = "idle"
    /\ intents = <<>>
    /\ dates = <<>>
    /\ times = <<>>
    /\ amounts = <<>>
    /\ priority = 0
    /\ confidence = 0
    /\ actions = <<>>
    /\ idx = 0
    /\ combined = None
    /\ context = "None"
    /\ earlier = <<>>
    /\ tasks \in TaskLists
    /\ budget_entries \in BudgetLists
    /\ schedule_events \in EventLists
    /\ minute \in Minutes
    /\ suggestions = None
    /\ collected = None
    /\ NoDesk

\* as Suggest, with the events sorted in place
Suggest_sorting_in_place ==
    /\ pc \in {"idle", "done", "raised"}
    /\ suggestions = None
    /\ suggestions' = <<get_smart_suggestions(tasks, budget_entries,
                                              schedule_events, today, minute)>>
    /\ collected' = <<collect_suggestions(tasks, budget_entries,
                                          schedule_events, today, minute)>>
    /\ schedule_events' = SortByStart(schedule_events, 1, <<>>)
    /\ UNCHANGED <<text, today, pc, intents, dates, times, amounts, priority,
                   confidence, actions, idx, combined, tasks, budget_entries,
                   context, earlier, minute, desk>>

\* one call of get_smart_suggestions, while no call of
\* process_complex_input is under way
Suggest ==
    /\ pc \in {"idle", "done", "raised"}
    /\ suggestions = None
    /\ suggestions' = <<get_smart_suggestions(tasks, budget_entries,
                                              schedule_events, today, minute)>>
    /\ collected' = <<collect_suggestions(tasks, budget_entries,
                                          schedule_events, today, minute)>>
    /\ UNCHANGED <<text, today, pc, intents, dates, times, amounts, priority,
                   confidence, actions, idx, combined, store, context,
                   earlier, minute, desk>>

NextSuggest == Suggest

SpecSuggest == InitSuggest /\ [][NextSuggest]_vars

(***************************************************************************)
(* A session: calls of process_user_input, one after the other, with       *)
(* contexts of the caller's choice, and a call of get_smart_suggestions    *)
(***************************************************************************)
\* the calls of process_user_input in a session
MaxCalls == 2

SessionTexts == {"add task buy milk", "show tasks and budget", "12 dollars"}

\* the context argument is opaque: None or a dict
Contexts == {"None", "{'user': 'moses'}"}

\* what a call that has ended gave its caller
Outcome ==
    IF pc = "raised" THEN <<"ValueError">>
    ELSE <<"result", intents, entities, actions, confidence>>

InitSession ==
    /\ text = ""
    /\ today = 121
    /\ pc = "idle"
    /\ intents = <<>>
    /\ dates = <<>>
    /\ times = <<>>
    /\ amounts = <<>>
    /\ priority = 0
    /\ confidence = 0
    /\ actions = <<>>
    /\ idx = 0
    /\ combined = None
    /\ context = "None"
    /\ earlier = <<>>
    /\ tasks \in {<<>>,
                  <<[done |-> FALSE, deadline |-> <<"2024-04-30">>],
                    [done |-> TRUE, deadline |-> None]>>}
    /\ budget_entries \in {<<>>,
                           <<Income(100000, "2024-05-03"),
                             Expense(112050, "2024-05-01")>>}
    /\ schedule_events = <<Event("review", "2024-05-02T08:00:00"),
                           Event("standup", "2024-05-01 09:00:00"),
                           Event("trip", "('next', 'week') 09:00")>>
    /\ minute = 570
    /\ suggestions = None
    /\ collected = None
    /\ NoDesk

\* process_user_input(user_input, context): the call enters
\* process_complex_input with fresh locals; the call before it, if there
\* was one, is noted with what it gave
Call ==
    /\ pc \in {"idle", "done", "raised"}
    /\ Len(earlier) + (IF pc = "idle" THEN 0 ELSE 1) < MaxCalls
    /\ earlier' = IF pc = "idle" THEN earlier
                  ELSE Append(earlier, [text |-> text, context |-> context,
                                        outcome |-> Outcome])
    /\ text' \in SessionTexts
    /\ context' \in Contexts
    /\ pc' = "classify"
    /\ intents' = <<>>
    /\ dates' = <<>>
    /\ times' = <<>>
    /\ amounts' = <<>>
    /\ priority' = 0
    /\ confidence' = 0
    /\ actions' = <<>>
    /\ idx' = 0
    /\ UNCHANGED <<today, combined, store, minute, suggestions, collected,
                   desk>>

NextSession ==
    \/ Call
    \/ Classify
    \/ ExtractDates
    \/ ExtractTimes
    \/ ExtractAmounts
    \/ ExtractPriority
    \/ BuildResult
    \/ GenerateActions
    \/ Return
    \/ Suggest

SpecSession == InitSession /\ [][NextSession]_vars

(***************************************************************************)
(* One call of _generate_budget_actions on entities of its own             *)
(***************************************************************************)
BudgetTexts ==
    {"I spent $12 on coffee", "Paid 12 dollars for lunch today",
     "earned $500 salary", "show budget", "received and spent", "coffee",
     "Show what I spent", "check my income"}

\* 12.00, 45.50 and 0.00
AmountItems == {1200, 4550, 0}

InitBudget ==
    /\ text \in BudgetTexts
    /\ today \in Days
    /\ pc = "budget"
    /\ intents = <<>>
    /\ dates \in Lists(DateItems, MaxList)
    /\ times = <<>>
    /\ amounts \in Lists(AmountItems, MaxList)
    /\ priority = 2
    /\ confidence = 0
    /\ actions = <<>>
    /\ idx = 0
    /\ combined = None
    /\ EmptySession

GenerateBudget ==
    /\ pc = "budget"
    /\ actions' = generate_budget_actions(text, entities, today)
    /\ pc' = "generated"
    /\ UNCHANGED <<text, today, intents, dates, times, amounts, priority,
                   confidence, idx, combined>>
    /\ UNCHANGED <<store, session>>

NextBudget == GenerateBudget

SpecBudget == InitBudget /\ [][NextBudget]_vars

(***************************************************************************)
(* One call of _generate_actions_for_intent on an intent and entities of   *)
(* its own, or one call of process_complex_input, on texts that hold the   *)
(* trigger words of several branches and keywords of several categories    *)
(***************************************************************************)
GeneratorTexts ==
    {"add gym meeting to the budget", "create a study plan with the doctor",
     "new book for the bank", "make pancakes", "spent on lunch and taxi",
     "paid the movie and the phone bill", "pay the doctor", "cost of paper",
     "mark the new task as done and list tasks",
     "earned and spent, show summary", "I received my salary",
     "schedule a meeting and remind me", "remind me to view the report",
     "finish and show", "list tasks", "add a bank payment",
     "spent on taxi and a concert", "paid for water and medicine",
     "add task to check budget, schedule meeting, show summary"}

GeneratorEntities ==
    {[dates |-> <<>>, times |-> <<>>, amounts |-> <<>>, priority |-> 2],
     [dates |-> << <<"2024-05-01">> >>, times |-> <<"3:30 pm">>,
      amounts |-> <<1200>>, priority |-> 4],
     [dates |-> <<>>, times |-> <<>>, amounts |-> <<4550, 1200>>,
      priority |-> 3],
     [dates |-> << <<"next", "week">> >>, times |-> <<":30">>,
      amounts |-> <<>>, priority |-> 1]}

InitGenerators ==
    /\ text \in GeneratorTexts
    /\ today \in Days
    /\ \/ /\ pc = "dispatch"
          /\ intents \in {<<IntentOrder[k]>> : k \in 1..Len(IntentOrder)}
          /\ \E e \in GeneratorEntities :
                /\ dates = e.dates
                /\ times = e.times
                /\ amounts = e.amounts
                /\ priority = e.priority
       \/ /\ pc = "classify"
          /\ intents = <<>>
          /\ dates = <<>>
          /\ times = <<>>
          /\ amounts = <<>>
          /\ priority = 0
    /\ confidence = 0
    /\ actions = <<>>
    /\ idx = 0
    /\ combined = None
    /\ EmptySession

\* actions = self._generate_actions_for_intent(intent, text, entities,
\* context)
Dispatch ==
    /\ pc = "dispatch"
    /\ actions' = generate_actions_for_intent(intents[1], text, entities,
                                              today)
    /\ pc' = "dispatched"
    /\ UNCHANGED <<text, today, intents, dates, times, amounts, priority,
                   confidence, idx, combined>>
    /\ UNCHANGED <<store, session>>

NextGenerators ==
    \/ Dispatch
    \/ Classify
    \/ ExtractDates
    \/ ExtractTimes
    \/ ExtractAmounts
    \/ ExtractPriority
    \/ BuildResult
    \/ GenerateActions
    \/ Return

SpecGenerators == InitGenerators /\ [][NextGenerators]_vars

(***************************************************************************)
(* The window of assistant_gui over the collections of shared.             *)
(* "from shared import tasks, budget_entries, schedule_events" binds the   *)
(* names of assistant_gui to the lists shared holds when it is imported;   *)
(* load_data_from_db then binds the names of shared to new lists.  The     *)
(* constructor of the window ends with refresh_all_data, so that from the  *)
(* first handler on the two modules hold different lists.  A record is     *)
(* told by its id; a new one is what the parser of shared returns for the  *)
(* text, the model answering.                                              *)
(***************************************************************************)
\* the most ids the three tables come to give
MaxRows == 4

Reverse(seq) == [k \in 1..Len(seq) |-> seq[Len(seq) + 1 - k]]

RECURSIVE InsertByDate(_, _, _)
\* e put into the list, latest date first, after the elements from k on
\* that are not of an earlier date
InsertByDate(sorted, e, k) ==
    IF k > Len(sorted) THEN Append(sorted, e)
    ELSE IF StrLess(sorted[k].date, e.date)
    THEN SubSeq(sorted, 1, k - 1) \o <<e>> \o SubSeq(sorted, k, Len(sorted))
    ELSE InsertByDate(sorted, e, k + 1)

RECURSIVE SortByDate(_, _, _)
\* SELECT * FROM budget_entries ORDER BY date DESC
SortByDate(rows, k, sorted) ==
    IF k > Len(rows) THEN sorted
    ELSE SortByDate(rows, k + 1, InsertByDate(sorted, rows[k], 1))

\* SELECT ... FROM chat_history ORDER BY timestamp DESC LIMIT n, reversed:
\* the rows are kept in the order of their timestamps
LastRows(rows, n) ==
    SubSeq(rows, IF Len(rows) > n THEN Len(rows) - n + 1 ELSE 1, Len(rows))

\* the last 50 messages are loaded
LoadLimit == 50

\* load_data_from_db: the four names of shared are bound to new lists read
\* from the tables (tasks by created_at DESC, budget entries by date DESC,
\* events by start_time ASC, the last messages in the order of their time)
load_data_from_db ==
    /\ tasks' = Reverse(db.tasks)
    /\ budget_entries' = SortByDate(db.budget_entries, 1, <<>>)
    /\ schedule_events' = SortByStart(db.schedule_events, 1, <<>>)
    /\ chat_history' = LastRows(db.chat_history, LoadLimit)

\* the record with the id the insertion gives it
WithId(rec, id) ==
    [f \in DOMAIN rec \cup {"id"} |-> IF f = "id" THEN id ELSE rec[f]]

\* list.pop(row - 1)
Pop(list, row) == SubSeq(list, 1, row - 1) \o SubSeq(list, row + 1, Len(list))

\* save_task_to_db, save_budget_entry_to_db, save_schedule_event_to_db,
\* then the append of the handler to the list of assistant_gui
SaveAndAppend(table, rec) ==
    /\ sqlite_sequence.tasks + sqlite_sequence.budget_entries
          + sqlite_sequence.schedule_events < MaxRows
    /\ sqlite_sequence' = [sqlite_sequence EXCEPT ![table] = @ + 1]
    /\ db' = [db EXCEPT
                ![table] = Append(@, WithId(rec, sqlite_sequence[table] + 1))]
    /\ gui' = [gui EXCEPT
                ![table] = Append(@, WithId(rec, sqlite_sequence[table] + 1))]

NewTasks == {[done |-> FALSE, deadline |-> <<"2024-04-30">>]}
NewEntries == {Expense(1200, "2024-05-01"), Income(100000, "2024-05-03")}
NewEvents == {Event("standup", "2024-05-01 09:00")}

\* a database of an earlier run, with one row in the three tables
StoredDb ==
    [tasks |-> <<WithId([done |-> FALSE, deadline |-> None], 1)>>,
     budget_entries |-> <<WithId(Expense(4550, "2024-05-02"), 1)>>,
     schedule_events |-> <<WithId(Event("review", "2024-05-01T20:00:00"), 1)>>,
     chat_history |-> <<>>]

\* assistant_gui has been imported, and shared with it: shared has loaded
\* the database and the names of both modules are bound to the same lists
InitGui ==
    /\ text = ""
    /\ today = 121
    /\ pc = "imported"
    /\ intents = <<>>
    /\ dates = <<>>
    /\ times = <<>>
    /\ amounts = <<>>
    /\ priority = 0
    /\ confidence = 0
    /\ actions = <<>>
    /\ idx = 0
    /\ combined = None
    /\ context = "None"
    /\ earlier = <<>>
    /\ minute = 570
    /\ suggestions = None
    /\ collected = None
    /\ db \in {EmptyDb, StoredDb}
    /\ sqlite_sequence = [tasks |-> Len(db.tasks),
                          budget_entries |-> Len(db.budget_entries),
                          schedule_events |-> Len(db.schedule_events)]
    /\ tasks = Reverse(db.tasks)
    /\ budget_entries = SortByDate(db.budget_entries, 1, <<>>)
    /\ schedule_events = SortByStart(db.schedule_events, 1, <<>>)
    /\ gui = [tasks |-> tasks, budget_entries |-> budget_entries,
              schedule_events |-> schedule_events]
    /\ removed = {}
    /\ chat_history = <<>>
    /\ clock = 0

\* what no handler of the window touches
OutsideWindow ==
    <<text, today, intents, dates, times, amounts, priority, confidence,
      actions, idx, combined, context, earlier, minute, suggestions,
      collected, clock>>

\* refresh_all_data, called by the constructor of the window, by the timer
\* and by the user: load_data_from_db, then the tables are drawn again
refresh_all_data ==
    /\ pc \in {"imported", "window"}
    /\ pc' = "window"
    /\ load_data_from_db
    /\ UNCHANGED <<gui, db, sqlite_sequence, removed>>
    /\ UNCHANGED OutsideWindow

\* add_task_from_text: parse_llm_task saves the task, the handler appends
\* it to its list
add_task_from_text ==
    /\ pc = "window"
    /\ \E rec \in NewTasks : SaveAndAppend("tasks", rec)
    /\ UNCHANGED <<pc, store, removed, chat_history>>
    /\ UNCHANGED OutsideWindow

\* add_budget_from_text, parse_budget_entry having returned an entry
add_budget_from_text ==
    /\ pc = "window"
    /\ \E rec \in NewEntries : SaveAndAppend("budget_entries", rec)
    /\ UNCHANGED <<pc, store, removed, chat_history>>
    /\ UNCHANGED OutsideWindow

\* add_event_from_text, parse_schedule_event having returned an event
add_event_from_text ==
    /\ pc = "window"
    /\ \E rec \in NewEvents : SaveAndAppend("schedule_events", rec)
    /\ UNCHANGED <<pc, store, removed, chat_history>>
    /\ UNCHANGED OutsideWindow

\* delete_selected_task: the task of the row is popped from the list of
\* assistant_gui and deleted from the table
delete_selected_task ==
    /\ pc = "window"
    /\ \E row \in 1..Len(gui.tasks) :
          /\ gui' = [gui EXCEPT !.tasks = Pop(@, row)]
          /\ db' = [db EXCEPT !.tasks =
                        SelectSeq(@, LAMBDA r : r.id # gui.tasks[row].id)]
    /\ UNCHANGED <<pc, store, sqlite_sequence, removed, chat_history>>
    /\ UNCHANGED OutsideWindow

\* delete_selected_budget: the entry of the row is popped from the list of
\* assistant_gui
delete_selected_budget ==
    /\ pc = "window"
    /\ \E row \in 1..Len(gui.budget_entries) :
          /\ gui' = [gui EXCEPT !.budget_entries = Pop(@, row)]
          /\ removed' = removed \cup {gui.budget_entries[row].id}
    /\ UNCHANGED <<pc, store, db, sqlite_sequence, chat_history>>
    /\ UNCHANGED OutsideWindow

\* delete_selected_event: the event of the row is popped from the list of
\* assistant_gui
delete_selected_event ==
    /\ pc = "window"
    /\ \E row \in 1..Len(gui.schedule_events) :
          gui' = [gui EXCEPT !.schedule_events = Pop(@, row)]
    /\ UNCHANGED <<pc, store, db, sqlite_sequence, removed, chat_history>>
    /\ UNCHANGED OutsideWindow

NextGui ==
    \/ refresh_all_data
    \/ add_task_from_text
    \/ add_budget_from_text
    \/ add_event_from_text
    \/ delete_selected_task
    \/ delete_selected_budget
    \/ delete_selected_event

SpecGui == InitGui /\ [][NextGui]_vars

(***************************************************************************)
(* The chat history: save_chat_message and load_data_from_db, on a         *)
(* database that holds the messages of earlier runs.  A timestamp is the   *)
(* number of the call of datetime.now() that gave it: save_chat_message    *)
(* calls it once for the row and once more for the message in memory.      *)
(***************************************************************************)
\* the most rows the table of messages comes to hold: 60 stored, 50 saves
\* that fill the history and two more
MaxMessages == 112

\* the messages kept in memory
HistoryCap == 100

\* the rows of the table when shared is imported
StoredMessages == {0, 60}

Message(role, content, timestamp) ==
    [role |-> role, content |-> content, timestamp |-> timestamp]

\* shared has been imported: it has loaded the last messages
InitChat ==
    /\ text = ""
    /\ today = 121
    /\ pc = "idle"
    /\ intents = <<>>
    /\ dates = <<>>
    /\ times = <<>>
    /\ amounts = <<>>
    /\ priority = 0
    /\ confidence = 0
    /\ actions = <<>>
    /\ idx = 0
    /\ combined = None
    /\ context = "None"
    /\ earlier = <<>>
    /\ minute = 570
    /\ suggestions = None
    /\ collected = None
    /\ tasks = <<>>
    /\ budget_entries = <<>>
    /\ schedule_events = <<>>
    /\ gui = EmptyLists
    /\ sqlite_sequence = [tasks |-> 0, budget_entries |-> 0,
                          schedule_events |-> 0]
    /\ removed = {}
    /\ \E n \in StoredMessages :
          /\ db = [EmptyDb EXCEPT
                     !.chat_history =
                         [k \in 1..n |-> Message("user", "hello", k)]]
          /\ clock = n
    /\ chat_history = LastRows(db.chat_history, LoadLimit)

\* what neither save_chat_message nor load_data_from_db touches
OutsideChat ==
    <<text, today, pc, intents, dates, times, amounts, priority, confidence,
      actions, idx, combined, context, earlier, minute, suggestions,
      collected, gui, sqlite_sequence, removed>>

\* list.pop(0) of a list longer than the cap
Capped(history) ==
    IF Len(history) > HistoryCap THEN Tail(history) ELSE history

\* as save_chat_message, the list being cut only when two over the cap
save_chat_message_late ==
    /\ Len(db.chat_history) < MaxMessages
    /\ \E role \in {"user"}, content \in {"hello"} :
          /\ db' = [db EXCEPT !.chat_history =
                        Append(@, Message(role, content, clock + 1))]
          /\ chat_history' =
                 IF Len(chat_history) > HistoryCap
                 THEN Tail(Append(chat_history,
                                  Message(role, content, clock + 2)))
                 ELSE Append(chat_history, Message(role, content, clock + 2))
    /\ clock' = clock + 2
    /\ UNCHANGED store
    /\ UNCHANGED OutsideChat

\* save_chat_message(role, content)
save_chat_message ==
    /\ Len(db.chat_history) < MaxMessages
    /\ \E role \in {"user"}, content \in {"hello"} :
          /\ db' = [db EXCEPT !.chat_history =
                        Append(@, Message(role, content, clock + 1))]
          /\ chat_history' =
                 Capped(Append(chat_history,
                               Message(role, content, clock + 2)))
    /\ clock' = clock + 2
    /\ UNCHANGED store
    /\ UNCHANGED OutsideChat

\* a call of load_data_from_db
Reload ==
    /\ load_data_from_db
    /\ UNCHANGED <<db, clock>>
    /\ UNCHANGED OutsideChat

NextChat ==
    \/ save_chat_message
    \/ Reload

SpecChat == InitChat /\ [][NextChat]_vars

(***************************************************************************)
(* Properties                                                              *)
(***************************************************************************)
\* classify_intent has returned: the state after the call, and the result
Classified == pc \in {"extract_dates", "done"}

\* process_complex_input has ended, with its result or with an exception
Ended == pc \in {"done", "raised"}

HasIntent(tag) == \E k \in 1..Len(intents) : intents[k] = tag

\* the place of a tag in the declaration order
Pos(tag) == CHOOSE k \in 1..Len(IntentOrder) : IntentOrder[k] = tag

\* some pattern of the k-th category matches the lower-cased text
CategoryMatches(k, t) == AnyPattern(INTENT_PATTERNS[k], Lower(t))

NoCategoryMatches(t) == \A k \in 1..Len(IntentOrder) : ~CategoryMatches(k, t)

HasAction(type) == \E k \in 1..Len(actions) : actions[k].type = type

RECURSIVE SkipSpace(_, _)
SkipSpace(s, i) ==
    IF i <= Len(s) /\ CharAt(s, i) \in Space THEN SkipSpace(s, i + 1) ELSE i

RECURSIVE WordsAt(_, _, _, _)
\* the words ws[k..] stand at position i of s, white space between two of
\* them and no word character after the last
WordsAt(s, i, ws, k) ==
    /\ LitAt(ws[k], s, i)
    /\ LET j == i + Len(ws[k]) IN
       IF k = Len(ws) THEN ~IsWordAt(s, j)
       ELSE SkipSpace(s, j) > j /\ WordsAt(s, SkipSpace(s, j), ws, k + 1)

\* the phrase ws occurs in s as whole words
PhraseOccurs(s, ws) ==
    \E i \in 1..Len(s) : ~IsWordAt(s, i - 1) /\ WordsAt(s, i, ws, 1)

AnyPhrase(s, phrases) == \E ws \in phrases : PhraseOccurs(Lower(s), ws)

UrgentPhrases ==
    {<<"urgent">>, <<"asap">>, <<"immediately">>, <<"critical">>,
     <<"high", "priority">>}
ImportantPhrases == {<<"important">>, <<"medium", "priority">>}
LowPhrases ==
    {<<"low", "priority">>, <<"when", "possible">>, <<"eventually">>}

\* C1: process and the four extraction operations return a value for every
\* text and never raise an exception, also when an amount pattern matches.
C1_NeverRaises == pc # "raised"

\* C2: classify returns a non-empty list of intent tags, and exactly
\* [conversation] when no pattern of any of the five categories matches the
\* lower-cased text.
C2_IntentsNonEmpty ==
    Classified =>
        /\ Len(intents) >= 1
        /\ NoCategoryMatches(text) => intents = <<"conversation">>

C2_Witness ==
    /\ pc = "extract_dates"
    /\ text # ""
    /\ NoCategoryMatches(text)
    /\ intents = <<"conversation">>

\* C3: the list classify returns holds each tag at most once, in the
\* declaration order, and holds a tag exactly when one of the tag's patterns
\* matches the lower-cased text (conversation also when no category matched).
C3_IntentsOrderedExact ==
    Classified =>
        /\ \A i, j \in 1..Len(intents) : i # j => intents[i] # intents[j]
        /\ \A i, j \in 1..Len(intents) :
              i < j => Pos(intents[i]) < Pos(intents[j])
        /\ \A k \in 1..Len(IntentOrder) :
              HasIntent(IntentOrder[k]) <=>
                 \/ CategoryMatches(k, text)
                 \/ IntentOrder[k] = "conversation" /\ NoCategoryMatches(text)

C3_Witness ==
    /\ pc = "extract_dates"
    /\ Len(intents) >= 3
    /\ HasIntent("task_management")
    /\ HasIntent("information_query")

\* C4: the confidence is 0.9 when two or more non-conversation intents
\* matched, 0.8 when exactly one did and 0.6 when none did, whether or not
\* conversation is also among the intents.
C4_ConfidenceBySpecificIntents ==
    pc = "done" =>
        LET n == Cardinality({k \in 1..Len(intents) :
                                 intents[k] # "conversation"})
        IN confidence = IF n >= 2 THEN 9 ELSE IF n = 1 THEN 8 ELSE 6

\* the occurrences of the three amount patterns in the text
AmountOccurrences(t) ==
    Len(FindAllOf(amount_patterns, 1, t))

\* C5: extract_amounts returns the numeric value of every occurrence of
\* "$N[.NN]", "N dollars" or "N bucks", each non-negative; [45.50] for
\* "I spent $45.50 on lunch" and the empty sequence for a text without one.
C5_AmountsExtracted ==
    pc \in {"extract_priority", "raised"} =>
        /\ pc # "raised"
        /\ Len(amounts) = AmountOccurrences(text)
        /\ \A k \in 1..Len(amounts) : amounts[k] >= 0
        /\ text = "I spent $45.50 on lunch" => amounts = <<4550>>
        /\ text = "no money mentioned" => amounts = <<>>

\* C6: process("I spent $12 on coffee today") returns intents that include
\* budget_management, amounts [12.0] and exactly one add_expense action,
\* with amount 12.0, category "Food" and today's date.
C6_CoffeeExpense ==
    Ended /\ text = "I spent $12 on coffee today" =>
        /\ pc = "done"
        /\ HasIntent("budget_management")
        /\ amounts = <<1200>>
        /\ Cardinality({k \in 1..Len(actions) :
                           actions[k].type = "add_expense"}) = 1
        /\ \A k \in 1..Len(actions) :
              actions[k].type = "add_expense" =>
                 /\ actions[k].data.amount = 1200
                 /\ actions[k].data.category = "Food"
                 /\ actions[k].data.date = <<StrfDate(today)>>

\* the text holds "add task" or "create task" and a description after it
TaskRequest(t) ==
    \E w \in {"add task", "create task"} : \E i \in 1..Len(t) :
        /\ LitAt(w, t, i)
        /\ Strip(SubSeq(t, i + Len(w), Len(t))) # ""

\* C7: for a text that holds "add task" or "create task" followed by a
\* description, classify includes task_management and process returns a
\* create_task action whose task is non-empty and holds neither the word
\* "add" nor the word "task".
C7_CreateTaskDescription ==
    Ended /\ TaskRequest(text) =>
        /\ pc = "done"
        /\ HasIntent("task_management")
        /\ \E k \in 1..Len(actions) :
              /\ actions[k].type = "create_task"
              /\ actions[k].data.task # ""
              /\ ~PhraseOccurs(Lower(actions[k].data.task), <<"add">>)
              /\ ~PhraseOccurs(Lower(actions[k].data.task), <<"task">>)

\* C8: extract_priority returns 4 if an urgent-class phrase occurs, else 3
\* if an important-class phrase occurs, else 1 if a low-class phrase
\* occurs, else 2; 4 for a text with both "low priority" and "urgent", 2 for
\* the empty text.
C8_PriorityPrecedence ==
    pc \in {"build_result", "done"} =>
        /\ priority \in {1, 2, 3, 4}
        /\ priority = IF AnyPhrase(text, UrgentPhrases) THEN 4
                      ELSE IF AnyPhrase(text, ImportantPhrases) THEN 3
                      ELSE IF AnyPhrase(text, LowPhrases) THEN 1
                      ELSE 2
        /\ text = "" => priority = 2

C8_Witness ==
    /\ pc = "done"
    /\ text = "low priority, urgent actually"
    /\ priority = 4

\* C9 as written: classify("hello there, how are you") is exactly
\* [conversation].
C9_GreetingOnlyConversation ==
    Classified /\ text = "hello there, how are you" =>
        intents = <<"conversation">>

\* C9, amended: classify("hello there, how are you") is exactly
\* [information_query, conversation]: "how" matches a question pattern.
C9_GreetingQueryAndConversation ==
    Classified /\ text = "hello there, how are you" =>
        intents = <<"information_query", "conversation">>

C9_Witness ==
    /\ pc = "extract_dates"
    /\ text = "hello there, how are you"
    /\ HasIntent("conversation")
    /\ Len(intents) = 2

\* C10: combine_date_time returns null exactly when dates and times are both
\* empty, and "<dates[0]> 09:00" when dates is non-empty and times is empty.
C10_CombineDefaultTime ==
    pc = "combined" =>
        /\ combined = None <=> (dates = <<>> /\ times = <<>>)
        /\ dates # <<>> /\ times = <<>> =>
              combined = <<PyStr(dates[1]) \o " 09:00">>

(***************************************************************************)
(* The suggestions and the collections                                     *)
(***************************************************************************)
\* the pending tasks whose deadline is a date before now
OverdueCount ==
    Cardinality({k \in 1..Len(tasks) :
                   ~tasks[k].done /\ IsOverdue(tasks[k], Now(today, minute))})

PendingCount == Cardinality({k \in 1..Len(tasks) : ~tasks[k].done})

MonthIncome == SumAmounts(budget_entries, 1, "income", CurrentMonth(today))
MonthExpenses == SumAmounts(budget_entries, 1, "expense", CurrentMonth(today))

\* the events that start within the 24 hours from now
UpcomingCount ==
    Cardinality({k \in 1..Len(schedule_events) :
                   InWindow(FromIsoFormat(ReplaceZ(
                                schedule_events[k].start_time)),
                            Now(today, minute), 1)})

\* the six rules, each with the string it produces or none
RuleOverdue ==
    IF OverdueCount > 0
    THEN <<"You have " \o PyInt(OverdueCount)
           \o " overdue tasks. Would you like to review them?">>
    ELSE <<>>

RuleManyPending ==
    IF PendingCount > 10
    THEN <<"You have many pending tasks. Consider prioritizing or breaking them down.">>
    ELSE <<>>

RuleDeficit ==
    IF MonthIncome < MonthExpenses
    THEN <<"Your budget is $" \o Money(MonthExpenses - MonthIncome)
           \o " over. Consider reviewing expenses.">>
    ELSE <<>>

RuleNearIncome ==
    IF 10 * MonthExpenses > 8 * MonthIncome
    THEN <<"You're spending close to your income limit. Track expenses carefully.">>
    ELSE <<>>

RuleUpcoming ==
    IF UpcomingCount >= 1
    THEN <<"You have " \o PyInt(UpcomingCount)
           \o " events coming up today. Need any preparation reminders?">>
    ELSE <<>>

RuleGreeting ==
    IF minute \div 60 \in 9..11
    THEN <<"Good morning! Ready to tackle today's priorities?">>
    ELSE IF minute \div 60 \in 13..14
    THEN <<"Afternoon check-in: How are your tasks progressing?">>
    ELSE IF minute \div 60 \in 17..19
    THEN <<"End of day: Want to review what you accomplished?">>
    ELSE <<>>

\* the first three elements of a sequence, or all of a shorter one
FirstThree(seq) ==
    [k \in 1..(IF Len(seq) < 3 THEN Len(seq) ELSE 3) |-> seq[k]]

Produced ==
    RuleOverdue \o RuleManyPending \o RuleDeficit \o RuleNearIncome
    \o RuleUpcoming \o RuleGreeting

\* C11: suggestions returns at most 3 strings, and they are the first three
\* (or all, if fewer) of the strings the rules overdue, many pending,
\* deficit, spending near income, upcoming event and greeting produce, in
\* that order, each rule giving at most one.
C11_FirstThreeInRuleOrder ==
    suggestions # None =>
        /\ Len(suggestions[1]) <= 3
        /\ suggestions[1] = FirstThree(Produced)

\* more than three rules fire, the first two among them
C11_Witness ==
    /\ suggestions # None
    /\ Len(Produced) > 3
    /\ OverdueCount > 0
    /\ PendingCount > 10
    /\ Len(suggestions[1]) = 3

\* C12: a call of suggestions leaves the task, budget-entry and event
\* collections as they were, and no step of process appends to, removes
\* from or updates any of them.
C12_CollectionsUnchanged == [][store' = store]_vars

\* both calls have ended over collections that hold something
C12_Witness ==
    /\ suggestions # None
    /\ pc = "done"
    /\ tasks # <<>>
    /\ budget_entries # <<>>
    /\ schedule_events # <<>>

(***************************************************************************)
(* The result of process                                                   *)
(***************************************************************************)
\* C13: every result process returns has intents that are non-empty and
\* free of duplicates, entities with the four fields dates, times, amounts
\* and priority, a priority among 1, 2, 3, 4, no negative amount and a
\* confidence between 0 and 1.
C13_ResultWellFormed ==
    pc = "done" =>
        /\ Len(intents) >= 1
        /\ \A i, j \in 1..Len(intents) : i # j => intents[i] # intents[j]
        /\ DOMAIN entities = {"dates", "times", "amounts", "priority"}
        /\ entities.priority \in {1, 2, 3, 4}
        /\ \A k \in 1..Len(entities.amounts) : entities.amounts[k] >= 0
        /\ confidence >= 0 /\ confidence <= 10

\* a result with several intents, a date and a priority off the default
C13_Witness ==
    /\ pc = "done"
    /\ Len(intents) >= 2
    /\ dates # <<>>
    /\ priority = 1

\* the intent whose generator produces actions of a type
TypeIntent(type) ==
    IF type \in {"create_task", "complete_task", "list_tasks"}
    THEN "task_management"
    ELSE IF type \in {"add_expense", "add_income", "show_budget_summary"}
    THEN "budget_management"
    ELSE IF type \in {"create_event", "set_reminder"}
    THEN "schedule_management"
    ELSE IF type = "generate_summary" THEN "information_query"
    ELSE "conversation"

\* C15: conversation never contributes an action: a result whose intents
\* are exactly [conversation] has no action, and every action of a result
\* is of a type that the generator of one of its matched intents other
\* than conversation produces.
C15_ConversationNoAction ==
    pc = "done" =>
        /\ intents = <<"conversation">> => actions = <<>>
        /\ \A k \in 1..Len(actions) :
              /\ TypeIntent(actions[k].type) # "conversation"
              /\ HasIntent(TypeIntent(actions[k].type))

\* a text that holds a trigger word of the task generator ("add") and
\* matches conversation only
C15_Witness ==
    /\ pc = "done"
    /\ text = "hello daddy"
    /\ intents = <<"conversation">>
    /\ actions = <<>>

MatchTexts(ms, s) == [j \in 1..Len(ms) |-> SubSeq(s, ms[j].start, ms[j].end - 1)]

RECURSIVE MatchedTexts(_, _, _)
\* the text of every match in s of the patterns from k on, pattern by
\* pattern
MatchedTexts(patterns, k, s) ==
    IF k > Len(patterns) THEN <<>>
    ELSE MatchTexts(Matches(patterns[k][1], patterns[k][2], s, 1), s)
         \o MatchedTexts(patterns, k + 1, s)

\* a matched date phrase as a date
DateOfPhrase(phrase, day) ==
    IF phrase = "today" THEN StrfDate(day)
    ELSE IF phrase = "tomorrow" THEN StrfDate(day + 1)
    ELSE IF phrase = "next week" THEN StrfDate(day + 7)
    ELSE IF phrase = "next month" THEN StrfDate(day + 30)
    ELSE phrase

DatesOfPhrases(phrases, day) ==
    [k \in 1..Len(phrases) |-> <<DateOfPhrase(phrases[k], day)>>]

\* C16: extract_dates returns strings: the current date for a matched
\* "today", the day after for "tomorrow", 7 days on for "next week", 30 days
\* on for "next month", each as YYYY-MM-DD, and the matched text itself for
\* every other matched date phrase.
C16_DatesNormalised ==
    pc = "extract_times" =>
        dates = DatesOfPhrases(MatchedTexts(date_patterns, 1, Lower(text)),
                               today)

\* C17: extract_times returns the full matched text of every match of
\* "H[:MM] am|pm", of morning/afternoon/evening/night and of "at H[:MM]",
\* nothing else done to it.
C17_TimesAsMatched ==
    pc = "extract_amounts" =>
        times = MatchedTexts(time_patterns, 1, Lower(text))

\* HH:MM of a 24-hour clock
IsClockTime(s) ==
    /\ Len(s) = 5
    /\ CharAt(s, 3) = ":"
    /\ \A i \in {1, 2, 4, 5} : CharAt(s, i) \in Digit
    /\ Number(SubSeq(s, 1, 2)) < 24
    /\ Number(SubSeq(s, 4, 5)) < 60

\* C18: for dates and times not both empty, combine_date_time returns
\* "<date> <time>" with dates[0] or today's date and a time that is a valid
\* 24-hour HH:MM, "09:00" whenever times[0] is no am/pm time that parses.
C18_CombinedTimeValid ==
    pc = "combined" /\ (dates # <<>> \/ times # <<>>) =>
        \E tm \in {SubSeq(combined[1], Len(combined[1]) - 4,
                           Len(combined[1]))} :
            /\ combined =
                 <<(IF dates # <<>> THEN PyStr(dates[1]) ELSE StrfDate(today))
                   \o " " \o tm>>
            /\ IsClockTime(tm)
            /\ (times = <<>> \/ Reparse(Lower(times[1])) = <<>>) =>
                  tm = "09:00"

\* C19: when the task generator runs on a text that holds complete, finish,
\* done or mark, the actions include a complete_task with the text as
\* task_query; when the text holds show, list or view, they include a
\* list_tasks; whatever other trigger words the text holds.
C19_TaskActionsIndependent ==
    pc = "done" /\ HasIntent("task_management") =>
        /\ ContainsAny(Lower(text), <<"complete", "finish", "done", "mark">>)
              => \E k \in 1..Len(actions) :
                    /\ actions[k].type = "complete_task"
                    /\ actions[k].data.task_query = text
        /\ ContainsAny(Lower(text), <<"show", "list", "view">>)
              => \E k \in 1..Len(actions) : actions[k].type = "list_tasks"

\* C20: the budget generator emits add_expense or add_income only when
\* entities.amounts is not empty; an add_expense (the text holds spent,
\* spend, cost, paid or pay) or add_income (earned, income, salary or
\* received) carries amounts[0] as amount and dates[0], or today's date
\* when there is no date, as date; add_income has no category.
C20_BudgetActionFields ==
    pc = "generated" =>
        \A k \in 1..Len(actions) :
            actions[k].type \in {"add_expense", "add_income"} =>
                /\ amounts # <<>>
                /\ actions[k].data.amount = amounts[1]
                /\ actions[k].data.date =
                      (IF dates # <<>> THEN dates[1] ELSE <<StrfDate(today)>>)
                /\ actions[k].type = "add_expense" =>
                      ContainsAny(Lower(text),
                                  <<"spent", "spend", "cost", "paid", "pay">>)
                /\ actions[k].type = "add_income" =>
                      /\ ContainsAny(Lower(text), <<"earned", "income",
                                                    "salary", "received">>)
                      /\ "category" \notin DOMAIN actions[k].data

\* an add_income that carries the first date of the entities
C20_Witness ==
    /\ pc = "generated"
    /\ dates # <<>>
    /\ Len(actions) = 1
    /\ actions[1].type = "add_income"
    /\ actions[1].data.amount = amounts[1]

(***************************************************************************)
(* The budget generator and the categories                                 *)
(***************************************************************************)
EntryVerbs ==
    <<"spent", "spend", "cost", "paid", "pay", "earned", "income", "salary",
      "received">>

SummaryWords == <<"show", "view", "check", "summary">>

\* the actions are one show_budget_summary with empty data
IsSummary == actions = << [type |-> "show_budget_summary", data |-> <<>>] >>

\* C21 as written: the budget generator emits show_budget_summary, with
\* empty data, exactly when the text holds show/view/check/summary and none
\* of the verbs of an expense or an income; a text with such a verb never
\* yields it.
C21_SummaryOnlyWithoutVerb ==
    pc = "generated" =>
        /\ HasAction("show_budget_summary") => IsSummary
        /\ HasAction("show_budget_summary") <=>
              /\ ContainsAny(Lower(text), SummaryWords)
              /\ ~ContainsAny(Lower(text), EntryVerbs)

\* C21, amended: the budget generator emits show_budget_summary, with empty
\* data, exactly when the text holds show/view/check/summary and it emits
\* neither add_expense nor add_income, that is unless the text holds a verb
\* of an expense or an income and entities.amounts is not empty.
C21_SummaryUnlessEntry ==
    pc = "generated" =>
        /\ HasAction("show_budget_summary") => IsSummary
        /\ HasAction("show_budget_summary") <=>
              /\ ContainsAny(Lower(text), SummaryWords)
              /\ ~(amounts # <<>> /\ ContainsAny(Lower(text), EntryVerbs))

\* a text with a verb of an expense and no amount gets the summary
C21_Witness ==
    /\ pc = "generated"
    /\ text = "Show what I spent"
    /\ amounts = <<>>
    /\ IsSummary

\* the tables of categories, each with its keywords, in the order written
TaskCategories ==
    << <<"Work", <<"work", "office", "meeting", "project", "deadline">> >>,
       <<"Health", <<"doctor", "gym", "exercise", "health", "medicine">> >>,
       <<"Learning", <<"learn", "study", "course", "book", "research">> >>,
       <<"Finance", <<"bill", "payment", "bank", "money", "budget">> >> >>

ExpenseCategories ==
    << <<"Food", <<"food", "restaurant", "lunch", "dinner", "coffee",
                   "grocery">> >>,
       <<"Transport", <<"gas", "uber", "taxi", "bus", "train",
                        "transport">> >>,
       <<"Entertainment", <<"movie", "game", "entertainment", "concert",
                            "show">> >>,
       <<"Utilities", <<"electric", "water", "internet", "phone",
                        "utility">> >>,
       <<"Healthcare", <<"doctor", "medicine", "pharmacy", "health">> >> >>

\* the categories of a table that have a keyword in the text
Matching(table, t) ==
    {k \in 1..Len(table) : ContainsAny(Lower(t), table[k][2])}

\* the earliest of them, or the default
FirstCategory(table, t, default) ==
    IF Matching(table, t) = {} THEN default
    ELSE table[CHOOSE k \in Matching(table, t) :
                   \A j \in Matching(table, t) : k <= j][1]

\* C22: category inference gives the first category, in table order, with
\* a keyword in the text: Work, Health, Learning, Finance, else "Personal"
\* for a task; Food, Transport, Entertainment, Utilities, Healthcare, else
\* "Other" for an expense.
C22_FirstCategoryWins ==
    pc = "dispatched" =>
        \A k \in 1..Len(actions) :
            /\ actions[k].type = "create_task" =>
                  actions[k].data.category =
                      FirstCategory(TaskCategories, text, "Personal")
            /\ actions[k].type = "add_expense" =>
                  actions[k].data.category =
                      FirstCategory(ExpenseCategories, text, "Other")

\* a task whose text holds keywords of Work, Health and Finance
C22_Witness ==
    /\ pc = "dispatched"
    /\ Cardinality(Matching(TaskCategories, text)) = 3
    /\ HasAction("create_task")
    /\ actions[1].data.category = "Work"

(***************************************************************************)
(* The budget rules of the suggestions                                     *)
(***************************************************************************)
DeficitPrefix == "Your budget is $"
SpendingNote ==
    "You're spending close to your income limit. Track expenses carefully."

\* where the list collected before the cut holds the deficit suggestion
DeficitAt == {k \in 1..Len(collected[1]) :
                StartsWith(collected[1][k], DeficitPrefix)}

\* where it holds the spending suggestion
SpendingAt == {k \in 1..Len(collected[1]) : collected[1][k] = SpendingNote}

\* C23: whatever the budget collection holds, the suggestions collected
\* before the cut hold the deficit suggestion exactly when the income of
\* the current month minus its expenses is negative, and the spending
\* suggestion exactly when its expenses are more than 80% of its income.
C23_BudgetRulesExact ==
    collected # None =>
        /\ DeficitAt # {} <=> MonthIncome - MonthExpenses < 0
        /\ SpendingAt # {} <=> 10 * MonthExpenses > 8 * MonthIncome

\* the expenses of the month are above 80% of its income and below it:
\* the spending suggestion alone
C23_Witness ==
    /\ collected # None
    /\ MonthIncome > MonthExpenses
    /\ 10 * MonthExpenses > 8 * MonthIncome
    /\ SpendingAt # {}
    /\ DeficitAt = {}

\* no entry of the budget has a negative amount
AmountsNonNegative ==
    \A k \in 1..Len(budget_entries) : budget_entries[k].amount >= 0

\* C28: with no negative amount in the budget, the deficit suggestion is
\* never collected without the spending suggestion right after it.
C28_DeficitThenSpending ==
    collected # None /\ AmountsNonNegative =>
        \A k \in DeficitAt : k + 1 \in SpendingAt

\* a deficit, after the two suggestions about tasks: the spending
\* suggestion is the fourth and the cut drops it
C28_Witness ==
    /\ collected # None
    /\ AmountsNonNegative
    /\ DeficitAt = {3}
    /\ SpendingAt = {4}
    /\ Len(suggestions[1]) = 3

(***************************************************************************)
(* The actions of a result                                                 *)
(***************************************************************************)
\* the first date of the result, or None
FirstDate == IF dates = <<>> THEN None ELSE dates[1]

\* what an action holds of the entities is what the result holds
FromEntities(a) ==
    /\ a.type = "create_task" =>
          a.data.priority = priority /\ a.data.deadline = FirstDate
    /\ a.type \in {"add_expense", "add_income"} =>
          amounts # <<>> /\ a.data.amount = amounts[1]
    /\ a.type = "create_event" =>
          a.data.start_time = combine_date_time(dates, times, today)
    /\ a.type = "set_reminder" =>
          a.data.time = combine_date_time(dates, times, today)

\* C24: in a result of process_complex_input the actions stand grouped by
\* intent, in the order task, budget, schedule, query, each for an intent
\* of the result, and what they hold of the entities (priority, first
\* date, first amount, date and time) is taken from the bundle the result
\* returns.
C24_ActionsInIntentOrder ==
    pc = "done" =>
        /\ \A i, j \in 1..Len(actions) :
              i < j => Pos(TypeIntent(actions[i].type))
                          <= Pos(TypeIntent(actions[j].type))
        /\ \A k \in 1..Len(actions) :
              /\ HasIntent(TypeIntent(actions[k].type))
              /\ FromEntities(actions[k])

\* a task with a priority of its own, then an event at a date and a time
C24_Witness ==
    /\ pc = "done"
    /\ Len(actions) >= 2
    /\ actions[1].type = "create_task"
    /\ actions[1].data.priority # 2
    /\ actions[2].type = "create_event"
    /\ actions[2].data.start_time # None

\* the branches of the generator of a tag, in the order written: the type
\* of the action and whether the text and the amounts ask for it
Branches(tag) ==
    IF tag = "task_management"
    THEN << <<"create_task",
              ContainsAny(Lower(text), <<"add", "create", "new", "make">>)>>,
            <<"complete_task",
              ContainsAny(Lower(text),
                          <<"complete", "finish", "done", "mark">>)>>,
            <<"list_tasks",
              ContainsAny(Lower(text), <<"show", "list", "view">>)>> >>
    ELSE IF tag = "budget_management"
    THEN << <<"add_expense",
              amounts # <<>>
              /\ ContainsAny(Lower(text),
                             <<"spent", "spend", "cost", "paid", "pay">>)>>,
            <<"add_income",
              amounts # <<>>
              /\ ContainsAny(Lower(text),
                             <<"earned", "income", "salary", "received">>)>>,
            <<"show_budget_summary",
              ContainsAny(Lower(text), SummaryWords)>> >>
    ELSE IF tag = "schedule_management"
    THEN << <<"create_event",
              ContainsAny(Lower(text), <<"schedule", "book", "plan",
                                         "appointment", "meeting">>)>>,
            <<"set_reminder",
              ContainsAny(Lower(text), <<"remind", "reminder">>)>> >>
    ELSE IF tag = "information_query"
    THEN << <<"generate_summary",
              ContainsAny(Lower(text), <<"status", "summary", "overview",
                                         "report">>)>> >>
    ELSE <<>>

\* the branches that are asked for
Asked(branches) == {k \in 1..Len(branches) : branches[k][2]}

\* none of them, or the first of them alone
FirstAsked(branches) ==
    IF Asked(branches) = {} THEN actions = <<>>
    ELSE /\ Len(actions) = 1
         /\ actions[1].type =
              branches[CHOOSE k \in Asked(branches) :
                           \A j \in Asked(branches) : k <= j][1]

\* C25: a call of the generator of an intent returns at most one action,
\* the one of the first branch asked for (create over complete over list;
\* expense over income over summary; event over reminder); a result of
\* process_complex_input has therefore at most 4 actions, no two of them
\* for the same intent.
C25_OneActionPerIntent ==
    /\ pc = "dispatched" => FirstAsked(Branches(intents[1]))
    /\ pc = "done" =>
          /\ Len(actions) <= 4
          /\ \A i, j \in 1..Len(actions) :
                i # j => TypeIntent(actions[i].type)
                           # TypeIntent(actions[j].type)

\* the text asks for the creation, the completion and the list of tasks:
\* the task is created and nothing else
C25_Witness ==
    /\ pc = "dispatched"
    /\ intents[1] = "task_management"
    /\ Asked(Branches("task_management")) = {1, 2, 3}
    /\ actions[1].type = "create_task"

(***************************************************************************)
(* The confidence and the amounts of a result                              *)
(***************************************************************************)
\* the intents of the result other than conversation
SpecificIntents ==
    {k \in 1..Len(intents) : intents[k] # "conversation"}

AmountsExtracted ==
    pc \in {"extract_priority", "build_result", "generate", "done", "raised"}

IdsOf(list) == {list[k].id : k \in 1..Len(list)}

\* C29: whatever the handlers of the window and refresh_all_data have
\* done, the lists the window shows and edits hold the records that
\* get_budget_summary, get_upcoming_events and the suggestions read; and
\* an entry delete_selected_budget removed is not among the entries
\* get_budget_summary sums.
C29_WindowSeesSharedLists ==
    pc = "window" =>
        /\ IdsOf(gui.tasks) = IdsOf(tasks)
        /\ IdsOf(gui.budget_entries) = IdsOf(budget_entries)
        /\ IdsOf(gui.schedule_events) = IdsOf(schedule_events)
        /\ removed \cap IdsOf(budget_entries) = {}

(***************************************************************************)
(* The chat history                                                        *)
(***************************************************************************)
\* the messages stand in the order of their timestamps
Chronological ==
    \A i, j \in 1..Len(chat_history) :
        i < j => chat_history[i].timestamp < chat_history[j].timestamp

\* a step of save_chat_message: the table has a row more
Saved == Len(db.chat_history') = Len(db.chat_history) + 1

\* C30: whatever calls of save_chat_message and load_data_from_db have
\* been made, the chat history in memory holds at most 100 messages in
\* the order of their time; and a save into a full history drops the
\* oldest message, and no other, and puts the new one last.
C30_HistoryCapped ==
    /\ [](Len(chat_history) <= HistoryCap /\ Chronological)
    /\ [][Saved /\ Len(chat_history) = HistoryCap =>
            /\ Len(chat_history') = HistoryCap
            /\ SubSeq(chat_history', 1, HistoryCap - 1) = Tail(chat_history)
            /\ chat_history'[HistoryCap].timestamp = clock']_vars

\* of 60 stored messages the last 50 were loaded, 50 saves have filled the
\* history and two more have dropped the two oldest
C30_Witness ==
    /\ Len(chat_history) = HistoryCap
    /\ chat_history[1].timestamp = 13
    /\ chat_history[HistoryCap].timestamp = clock
====
